---------------------------- MODULE Spec2Model ----------------------------
(***************************************************************************)
(* A model of the XMAP backend: the record parser, the contig indexer, the *)
(* pairwise match engine (stream_matches_multi), the result cache          *)
(* (XmapCache) and the request handler that frames matches onto a duplex   *)
(* pipe (stream_xmap_matches).                                             *)
(*                                                                         *)
(* Conventions.                                                            *)
(*  - A file is a sequence of lines, a line a sequence of tab-separated    *)
(*    fields, a field a token: an integer numeral ("100"), a decimal       *)
(*    numeral with one fractional digit ("1000.0") or other text, the      *)
(*    text kept as its sequence of character codes.                        *)
(*  - An f64 is held as a whole number of tenths (1000.0 is 10000).        *)
(*  - A DashMap that the code iterates is held as the sequence of its      *)
(*    values in iteration order (keys distinct); the order of a fresh map  *)
(*    is unspecified (RandomState), so it is chosen nondeterministically.  *)
(*  - An Arc is told apart from a content-equal one by its "arc" field.    *)
(***************************************************************************)
EXTENDS Integers, Sequences, FiniteSets, TLC

(***************************************************************************)
(* Bounds of the model.                                                    *)
(***************************************************************************)
\* worker threads spawned per file pair (num_cpus::get() on the host)
NThreads == 2
\* up to this many elements, every iteration order of a fresh map is tried;
\* above it only the ascending and the descending order
MaxPermute == 3
\* number of groups of the large file (one more than a full batch)
BigGroups == 101

(***************************************************************************)
(* Program constants.                                                      *)
(***************************************************************************)
chunk_size == 100
MinFields == 12

(***************************************************************************)
(* Generic helpers.                                                        *)
(***************************************************************************)
Range(s) == {s[i] : i \in 1..Len(s)}

Min(a, b) == IF a < b THEN a ELSE b

RECURSIVE SeqSum(_)
SeqSum(s) == IF s = <<>> THEN 0 ELSE s[1] + SeqSum(Tail(s))

RECURSIVE FlattenRange(_, _, _)
\* ss[lo] \o ... \o ss[hi], by halving
FlattenRange(ss, lo, hi) ==
    IF lo > hi THEN <<>>
    ELSE IF lo = hi THEN ss[lo]
    ELSE LET mid == (lo + hi) \div 2
         IN  FlattenRange(ss, lo, mid) \o FlattenRange(ss, mid + 1, hi)

Flatten(ss) == FlattenRange(ss, 1, Len(ss))

\* the subsequence of s whose elements satisfy Test
SelectWhere(s, Test(_)) == SelectSeq(s, Test)

\* all sequences that list every element of the finite set S exactly once
Perms(S) ==
    LET n == Cardinality(S)
    IN  {f \in [1..n -> S] : \A i, j \in 1..n : f[i] = f[j] => i = j}

RECURSIVE SortedBetween(_, _, _)
\* the elements of S, all within lo..hi, in ascending order: the range of
\* values is split by halves
SortedBetween(S, lo, hi) ==
    IF S = {} THEN <<>>
    ELSE IF lo = hi THEN <<lo>>
    ELSE LET mid == (lo + hi) \div 2
         IN  SortedBetween({x \in S : x <= mid}, lo, mid)
               \o SortedBetween({x \in S : x > mid}, mid + 1, hi)

\* the elements of a finite set of natural numbers in ascending order
SortedSeq(S) ==
    IF S = {} THEN <<>>
    ELSE SortedBetween(S, 0, CHOOSE x \in S : \A y \in S : y <= x)

Reverse(s) == [i \in 1..Len(s) |-> s[Len(s) + 1 - i]]

\* the iteration orders tried for a fresh map with key set S
Orders(S) ==
    IF Cardinality(S) <= MaxPermute THEN Perms(S)
    ELSE {SortedSeq(S), Reverse(SortedSeq(S))}

RECURSIVE ChoicesRec(_, _)
ChoicesRec(keys, cands) ==
    IF keys = {} THEN {[x \in {} |-> 0]}
    ELSE LET k == CHOOSE x \in keys : TRUE
         IN  {[x \in DOMAIN f \cup {k} |-> IF x = k THEN v ELSE f[x]] :
                 <<f, v>> \in ChoicesRec(keys \ {k}, cands) \X cands[k]}

\* every function on keys that takes at each key one of its candidates
Choices(keys, cands) ==
    IF \A k \in keys : Cardinality(cands[k]) = 1
    THEN {[k \in keys |-> CHOOSE v \in cands[k] : TRUE]}
    ELSE ChoicesRec(keys, cands)

(***************************************************************************)
(* Tokens and lines.                                                       *)
(***************************************************************************)
\* the integer numeral n, e.g. "100"
I(n) == [k |-> "i", n |-> n, f |-> 0, s |-> <<>>]
\* the decimal numeral n.f, e.g. "1000.0" (n >= 0, one fractional digit)
D(n, f) == [k |-> "d", n |-> n, f |-> f, s |-> <<>>]
\* any other text, as character codes
T(s) == [k |-> "t", n |-> 0, f |-> 0, s |-> s]

ChHash == 35
ChPlus == 43
ChMinus == 45
ChSpace == 32
ChDigit0 == 48
ChM == 77
ChX == 120

RECURSIVE LeadingDigit(_)
LeadingDigit(n) == IF n < 10 THEN n ELSE LeadingDigit(n \div 10)

\* the first character of a field, 0 when the field is empty
FirstChar(tok) ==
    IF tok.k = "t" THEN (IF tok.s = <<>> THEN 0 ELSE tok.s[1])
    ELSE IF tok.n < 0 THEN ChMinus
    ELSE ChDigit0 + LeadingDigit(tok.n)

\* line.starts_with('#')
StartsWithHash(line) == FirstChar(line[1]) = ChHash

\* line.trim().is_empty(): nothing but white space (tabs and blanks)
IsBlankLine(line) ==
    \A i \in 1..Len(line) :
        /\ line[i].k = "t"
        /\ \A j \in 1..Len(line[i].s) : line[i].s[j] = ChSpace

\* str::parse::<u8>, ::<u32>, ::<f64>: [ok, v]
ParseU8(tok) ==
    IF tok.k = "i" /\ tok.n >= 0 /\ tok.n <= 255
    THEN [ok |-> TRUE, v |-> tok.n] ELSE [ok |-> FALSE, v |-> 0]

ParseU32(tok) ==
    IF tok.k = "i" /\ tok.n >= 0
    THEN [ok |-> TRUE, v |-> tok.n] ELSE [ok |-> FALSE, v |-> 0]

ParseF64(tok) ==
    IF tok.k = "i" THEN [ok |-> TRUE, v |-> tok.n * 10]
    ELSE IF tok.k = "d" THEN [ok |-> TRUE, v |-> tok.n * 10 + tok.f]
    ELSE [ok |-> FALSE, v |-> 0]

(***************************************************************************)
(* parse_xmap_file.                                                        *)
(***************************************************************************)
\* a wrong closure: every line is let go as a short line is
ParseLineAllSkipped(line) ==
    [kind |-> "skip", field |-> "",
     record |-> [xmap_entry_id |-> 0, qry_contig_id |-> 0, ref_contig_id |-> 0,
                 qry_start_pos |-> 0, qry_end_pos |-> 0, ref_start_pos |-> 0,
                 ref_end_pos |-> 0, orientation |-> 0, confidence |-> 0,
                 ref_len |-> 0]]

\* the closure of try_for_each on one line that passed the filter:
\* [kind |-> "skip"], [kind |-> "err", field] or [kind |-> "ok", record]
ParseLine(line) ==
    LET none == [xmap_entry_id |-> 0, qry_contig_id |-> 0, ref_contig_id |-> 0,
                 qry_start_pos |-> 0, qry_end_pos |-> 0, ref_start_pos |-> 0,
                 ref_end_pos |-> 0, orientation |-> 0, confidence |-> 0,
                 ref_len |-> 0]
        Skip == [kind |-> "skip", field |-> "", record |-> none]
        Err(f) == [kind |-> "err", field |-> f, record |-> none]
    IN
    IF Len(line) < MinFields THEN Skip
    ELSE
    LET ref_contig_id == ParseU8(line[3])
        ref_len == ParseF64(line[12])
        xmap_entry_id == ParseU32(line[1])
        qry_contig_id == ParseU32(line[2])
        qry_start_pos == ParseF64(line[4])
        qry_end_pos == ParseF64(line[5])
        ref_start_pos == ParseF64(line[6])
        ref_end_pos == ParseF64(line[7])
        confidence == ParseF64(line[9])
        first == FirstChar(line[8])
    IN
    IF ~ref_contig_id.ok THEN Err("RefContigID")
    ELSE IF ~ref_len.ok THEN Err("RefLen")
    ELSE IF ~xmap_entry_id.ok THEN Err("XmapEntryID")
    ELSE IF ~qry_contig_id.ok THEN Err("QryContigID")
    ELSE IF ~qry_start_pos.ok THEN Err("QryStartPos")
    ELSE IF ~qry_end_pos.ok THEN Err("QryEndPos")
    ELSE IF ~ref_start_pos.ok THEN Err("RefStartPos")
    ELSE IF ~ref_end_pos.ok THEN Err("RefEndPos")
    ELSE IF ~confidence.ok THEN Err("Confidence")
    ELSE [kind |-> "ok", field |-> "",
          record |-> [xmap_entry_id |-> xmap_entry_id.v,
                      qry_contig_id |-> qry_contig_id.v,
                      ref_contig_id |-> ref_contig_id.v,
                      qry_start_pos |-> qry_start_pos.v,
                      qry_end_pos |-> qry_end_pos.v,
                      ref_start_pos |-> ref_start_pos.v,
                      ref_end_pos |-> ref_end_pos.v,
                      orientation |-> IF first = 0 THEN ChPlus ELSE first,
                      confidence |-> confidence.v,
                      ref_len |-> ref_len.v]]

\* a wrong filter: comment lines and blank lines are let through
DataLinesUnfiltered(content) == content

\* the lines the filter lets through
DataLines(content) ==
    SelectSeq(content, LAMBDA line : ~StartsWithHash(line) /\ ~IsBlankLine(line))

LineResults(content) ==
    LET d == DataLines(content) IN [i \in 1..Len(d) |-> ParseLine(d[i])]

\* The outcomes of parse_xmap_file(content).  The lines are processed in
\* parallel (par_lines), so with several failing lines any of their errors can
\* be the one returned, with several lines of one key any of them can be the
\* last insert, and the maps' iteration orders are unspecified.
\* An outcome: [ok, error, records (sequence, iteration order), lengths
\* (set of <<ref_contig_id, ref_len>>, one per key)].
ParseOutcomes(content) ==
    LET res == LineResults(content)
        errs == {res[i].field : i \in {j \in 1..Len(res) : res[j].kind = "err"}}
        recs == {res[i].record : i \in {j \in 1..Len(res) : res[j].kind = "ok"}}
        ids == {r.xmap_entry_id : r \in recs}
        refs == {r.ref_contig_id : r \in recs}
        \* one record per entry id, one length per reference contig: any of
        \* the lines that insert under the key can be the last to do so (for
        \* a length, any of the values those lines carry)
        RecordMaps == Choices(ids, [id \in ids |-> {r \in recs : r.xmap_entry_id = id}])
        LengthMaps == Choices(refs, [c \in refs |->
                                        {r.ref_len : r \in {x \in recs : x.ref_contig_id = c}}])
    IN
    IF errs # {}
    THEN {[ok |-> FALSE, error |-> e, records |-> <<>>, lengths |-> {}] : e \in errs}
    ELSE {[ok |-> TRUE, error |-> "",
           records |-> [i \in 1..Len(o) |-> m[o[i]]],
           lengths |-> {<<c, l[c]>> : c \in refs}] :
              <<m, l, o>> \in
                {<<m, l, o>> \in RecordMaps \X LengthMaps \X Orders(ids) : TRUE}}


(***************************************************************************)
(* build_index and XmapFileSet.                                            *)
(***************************************************************************)
QryIds(records) == {records[i].qry_contig_id : i \in 1..Len(records)}

\* the records of one query contig, in the map's iteration order
GroupOf(records, q) == SelectSeq(records, LAMBDA r : r.qry_contig_id = q)

\* a wrong insert: nothing is stored
MapInsertNothing(map, key, value) == map

\* map.insert(key, value) on a map held as a function
MapInsert(map, key, value) ==
    [k \in DOMAIN map \cup {key} |-> IF k = key THEN value ELSE map[k]]

\* DashMap::new()
EmptyIndex == [x \in {} |-> <<>>]

\* index.entry(qry_id).or_insert_with(..) and qry_map.insert(entry id, record)
\* for one record, on an empty index
IndexOfRecord(record) ==
    (record.qry_contig_id :> (record.xmap_entry_id :> record))

\* the inserts of `later` done after those of `earlier`: the buckets of both,
\* a later insert under an entry id going over an earlier one
IndexThen(earlier, later) ==
    [q \in DOMAIN earlier \cup DOMAIN later |->
        IF q \notin DOMAIN later THEN earlier[q]
        ELSE IF q \notin DOMAIN earlier THEN later[q]
        ELSE later[q] @@ earlier[q]]

RECURSIVE BuildIndexFrom(_, _, _)
\* the loop of build_index over records[lo..hi], in the order iterated; the
\* range is folded by halves
BuildIndexFrom(records, lo, hi) ==
    IF lo > hi THEN EmptyIndex
    ELSE IF lo = hi THEN IndexOfRecord(records[lo])
    ELSE LET mid == (lo + hi) \div 2
         IN  IndexThen(BuildIndexFrom(records, lo, mid),
                       BuildIndexFrom(records, mid + 1, hi))

\* a wrong indexer: the record iterated last is left out
BuildIndexDropsLast(records) == BuildIndexFrom(records, 1, Len(records) - 1)

\* build_index: query-contig id -> (entry id -> record)
build_index(records) == BuildIndexFrom(records, 1, Len(records))

\* XmapFileSet::new
NewFileSet(files) ==
    [files |-> files, indices |-> [i \in 1..Len(files) |-> build_index(files[i])]]

(***************************************************************************)
(* stream_matches_multi: the pure parts.                                   *)
(***************************************************************************)
\* wrong pairs: file 0 against every other file only (the earlier variant)
FilePairsFromFirst(n) == [k \in 1..(n - 1) |-> <<0, k>>]

\* file_pairs: every (i, j), i < j, in the order of the two nested loops
\* (file indices count from 0, as in the code)
FilePairs(n) ==
    LET PairsFrom(i) == [k \in 1..(n - 1 - i) |-> <<i, i + k>>]
    IN  Flatten([i1 \in 1..n |-> PairsFrom(i1 - 1)])

\* qry_groups_i in the iteration order `order` of its keys: (qry_id, records)
GroupEntries(records, order) ==
    [k \in 1..Len(order) |-> <<order[k], GroupOf(records, order[k])>>]

\* qry_groups_j, which is only probed
GroupMap(records) == [q \in QryIds(records) |-> GroupOf(records, q)]

\* Vec::with_capacity(chunk_size), nothing pushed
NoBatch == <<>>

RECURSIVE Chunks(_, _)
\* the batches pushed on the queue: full ones while iterating, then the rest
Chunks(entries, size) ==
    IF entries = <<>> THEN <<>>
    ELSE IF Len(entries) <= size THEN <<entries>>
    ELSE <<SubSeq(entries, 1, size)>> \o
         Chunks(SubSeq(entries, size + 1, Len(entries)), size)

\* a wrong queue: what is left over after the loop is pushed even when it
\* is empty
BuildQueueEmptyRest(entries) ==
    IF Len(entries) % chunk_size = 0
    THEN Chunks(entries, chunk_size) \o <<NoBatch>>
    ELSE Chunks(entries, chunk_size)

\* a wrong queue: the batch left over after the loop is never pushed
BuildQueueNoRest(entries) ==
    LET q == Chunks(entries, chunk_size)
    IN  IF q # <<>> /\ Len(q[Len(q)]) < chunk_size THEN SubSeq(q, 1, Len(q) - 1) ELSE q

\* lines 203-220: the queue of batches of chunk_size groups
BuildQueue(entries) == Chunks(entries, chunk_size)

\* a wrong probe: a miss is taken for a hit with no records (a union join)
ProbeUnion(groups_j, qry_id) ==
    [some |-> TRUE,
     records |-> IF qry_id \in DOMAIN groups_j THEN groups_j[qry_id] ELSE <<>>]

\* qry_groups_j.get(qry_id): Some(records_j) or None
Probe(groups_j, qry_id) ==
    IF qry_id \in DOMAIN groups_j
    THEN [some |-> TRUE, records |-> groups_j[qry_id]]
    ELSE [some |-> FALSE, records |-> <<>>]

NewMatchedRecord(file_index, r) ==
    [file_index |-> file_index,
     ref_contig_id |-> r.ref_contig_id,
     qry_start_pos |-> r.qry_start_pos,
     qry_end_pos |-> r.qry_end_pos,
     ref_start_pos |-> r.ref_start_pos,
     ref_end_pos |-> r.ref_end_pos,
     orientation |-> r.orientation,
     confidence |-> r.confidence,
     ref_len |-> r.ref_len]

\* a wrong match: one record for each file, its first of the query contig
NewMatchOnePerFile(file_i, file_j, qry_id, records_i, records_j) ==
    [qry_contig_id |-> qry_id,
     file_indices |-> <<file_i, file_j>>,
     records |-> <<NewMatchedRecord(file_i, records_i[1]),
                   NewMatchedRecord(file_j, records_j[1])>>]

\* the XmapMatch built for one probe hit
NewMatch(file_i, file_j, qry_id, records_i, records_j) ==
    [qry_contig_id |-> qry_id,
     file_indices |-> [k \in 1..Len(records_i) |-> file_i] \o
                      [k \in 1..Len(records_j) |-> file_j],
     records |-> [k \in 1..Len(records_i) |-> NewMatchedRecord(file_i, records_i[k])] \o
                 [k \in 1..Len(records_j) |-> NewMatchedRecord(file_j, records_j[k])]]

(***************************************************************************)
(* Input files (the contents of the module's tests and of the spec's       *)
(* scenarios).                                                             *)
(***************************************************************************)
XLine(id, q, ref, qs, qe, rs, re, o, conf, qlen, reflen) ==
    <<I(id), I(q), I(ref), D(qs, 0), D(qe, 0), D(rs, 0), D(re, 0), T(<<o>>),
      conf, T(<<ChDigit0 + 1, ChM>>), D(qlen, 0), D(reflen, 0)>>

\* "#h XmapEntryID QryContigID ... RefLen"
HeaderLine == <<T(<<ChHash, ChX>>)>> \o [k \in 1..11 |-> T(<<ChX>>)]

\* ids 100 and 200 (file1 of test_stream_matches_multi_two_files)
FileA == <<HeaderLine,
           XLine(1, 100, 1, 1000, 2000, 5000, 6000, ChPlus, D(15, 0), 2000, 250000),
           XLine(2, 200, 2, 3000, 4000, 7000, 8000, ChMinus, D(14, 5), 4000, 250000)>>
\* ids 100 and 300
FileB == <<HeaderLine,
           XLine(10, 100, 3, 1500, 2500, 9000, 10000, ChPlus, D(16, 0), 2500, 250000),
           XLine(11, 300, 4, 3500, 4500, 11000, 12000, ChMinus, D(15, 5), 4500, 250000)>>
\* id 100 (file3 of test_stream_matches_multi_three_files)
FileC == <<HeaderLine,
           XLine(20, 100, 3, 2000, 3000, 9000, 10000, ChMinus, D(17, 0), 3000, 250000)>>
\* two records of id 100 (as entries 1 and 3 of sample_xmap_content share an id)
FileD == <<XLine(1, 100, 1, 1038, 2059, 4561, 11107, ChMinus, D(15, 1), 1038, 117599),
           XLine(3, 100, 2, 1021, 1185, 4561, 11759, ChPlus, D(17, 8), 1185, 117599)>>
\* BigGroups records, each of an id of its own: 100, 101, ...
FileBig == [k \in 1..BigGroups |->
              XLine(k, 99 + k, 1, 1000, 2000, 5000, 6000, ChPlus, D(15, 0), 2000, 250000)]

\* chunk_size records, each of an id of its own: one full batch, no rest
FileFull == SubSeq(FileBig, 1, chunk_size)
\* a header and no record
FileEmpty == <<HeaderLine>>

\* two lines insert under entry id 1 and under reference contig 1
FileDup == <<XLine(1, 100, 1, 1000, 2000, 5000, 6000, ChPlus, D(15, 0), 2000, 250000),
             XLine(1, 200, 1, 3000, 4000, 7000, 8000, ChMinus, D(14, 5), 4000, 117599)>>
\* a line of 12 fields whose query-contig id is no number
FileBad == <<HeaderLine,
             XLine(1, 100, 1, 1000, 2000, 5000, 6000, ChPlus, D(15, 0), 2000, 250000),
             <<I(2), T(<<ChX>>), I(2), D(3000, 0), D(4000, 0), D(7000, 0), D(8000, 0),
               T(<<ChMinus>>), D(14, 5), T(<<ChDigit0 + 1, ChM>>), D(4000, 0),
               D(250000, 0)>>>>

\* records of one query contig in the wide file
WideRecords == 1000

\* WideRecords records of id 100 and one of id 200: matched with itself it
\* gives one match whose frame is larger than the duplex pipe, and a small one
FileWide == [k \in 1..(WideRecords + 1) |->
               XLine(k, IF k <= WideRecords THEN 100 ELSE 200, 1, 1000, 2000, 5000,
                     6000, ChPlus, D(15, 0), 2000, 250000)]

\* id 300 alone: no contig in common with FileA
FileE == <<HeaderLine,
           XLine(30, 300, 5, 500, 1500, 2000, 3000, ChPlus, D(12, 5), 1500, 180000)>>

SmallFiles == {FileA, FileB, FileC, FileD}

\* An uploaded body is held in the state by its name; the name Bin stands
\* for bytes that are no UTF-8 text.
IsUtf8(name) == name # "Bin"

Content(name) ==
    CASE name = "A" -> FileA
      [] name = "B" -> FileB
      [] name = "C" -> FileC
      [] name = "D" -> FileD
      [] name = "E" -> FileE
      [] name = "Dup" -> FileDup
      [] name = "Bad" -> FileBad
      [] name = "Big" -> FileBig
      [] name = "Wide" -> FileWide
      [] OTHER -> <<>>

(***************************************************************************)
(* hash_content.  DefaultHasher (SipHash) is not reproduced: the hash is   *)
(* held as a position-weighted checksum of the text, a deterministic       *)
(* function of the content into a bounded range.                           *)
(***************************************************************************)
HashModulus == 65521

RECURSIVE SumRange(_, _, _)
\* f[lo] + ... + f[hi], by halving
SumRange(f, lo, hi) ==
    IF lo > hi THEN 0
    ELSE IF lo = hi THEN f[lo]
    ELSE LET mid == (lo + hi) \div 2
         IN  SumRange(f, lo, mid) + SumRange(f, mid + 1, hi)

TokCode(tok) ==
    (IF tok.k = "i" THEN 1 ELSE IF tok.k = "d" THEN 2 ELSE 3)
      + (IF tok.n < 0 THEN 7 - tok.n ELSE tok.n) * 10 + tok.f
      + SumRange([j \in 1..Len(tok.s) |-> j * tok.s[j]], 1, Len(tok.s))

LineCode(line) ==
    SumRange([j \in 1..Len(line) |-> j * (TokCode(line[j]) % HashModulus)], 1, Len(line))
      % HashModulus

hash_content(content) ==
    SumRange([i \in 1..Len(content) |-> (i * LineCode(content[i])) % HashModulus],
             1, Len(content)) % HashModulus

(***************************************************************************)
(* bincode::serialize of an XmapMatch and the frame written for it.        *)
(* bincode's default options: fixed-width little-endian integers, usize as *)
(* u64, a u64 element count before a boxed slice, a char as its UTF-8      *)
(* bytes, the fields of a struct in declaration order.  An f64 is 8 bytes; *)
(* the IEEE-754 bit pattern is not reproduced: the 8 bytes are the         *)
(* little-endian bytes of the value held in tenths.                        *)
(***************************************************************************)
RECURSIVE LE(_, _)
\* the w low bytes of n, least significant first (n.to_le_bytes())
LE(n, w) == IF w = 0 THEN <<>> ELSE <<n % 256>> \o LE(n \div 256, w - 1)

U8Bytes(n) == LE(n, 1)
U32Bytes(n) == LE(n, 4)
U64Bytes(n) == LE(n, 8)
F64Bytes(x) == LE(x, 8)
\* a char below U+0080 is one byte, up to U+07FF two
CharBytes(c) ==
    IF c < 128 THEN <<c>> ELSE <<192 + (c \div 64), 128 + (c % 64)>>

SerializeRecord(r) ==
    U64Bytes(r.file_index) \o U8Bytes(r.ref_contig_id)
      \o F64Bytes(r.qry_start_pos) \o F64Bytes(r.qry_end_pos)
      \o F64Bytes(r.ref_start_pos) \o F64Bytes(r.ref_end_pos)
      \o CharBytes(r.orientation)
      \o F64Bytes(r.confidence) \o F64Bytes(r.ref_len)

\* bincode::serialize(&match_data)
SerializeMatch(m) ==
    U32Bytes(m.qry_contig_id)
      \o U64Bytes(Len(m.file_indices))
      \o Flatten([k \in 1..Len(m.file_indices) |-> U64Bytes(m.file_indices[k])])
      \o U64Bytes(Len(m.records))
      \o Flatten([k \in 1..Len(m.records) |-> SerializeRecord(m.records[k])])

\* a wrong prefix: the length counts the four prefix bytes as well
LengthPrefixInclusive(bytes) == U32Bytes(Len(bytes) + 4)

\* (bytes.len() as u32).to_le_bytes()
LengthPrefix(bytes) == U32Bytes(Len(bytes))

\* tokio::io::duplex(131072)
DuplexCapacity == 131072

(***************************************************************************)
(* cache_match's match_id, a u64 held as four 16-bit limbs, most           *)
(* significant first.                                                      *)
(***************************************************************************)
Limb == 65536

RECURSIVE BitOr(_, _)
BitOr(a, b) ==
    IF a = 0 THEN b
    ELSE IF b = 0 THEN a
    ELSE (IF a % 2 = 1 \/ b % 2 = 1 THEN 1 ELSE 0) + 2 * BitOr(a \div 2, b \div 2)

\* `as u64` of a u32
U32AsU64(n) == <<0, 0, (n \div Limb) % Limb, n % Limb>>

\* `as u64` of an f64 held in tenths: truncation toward zero, a negative
\* value saturates to 0
F64AsU64(x) ==
    IF x < 0 THEN <<0, 0, 0, 0>>
    ELSE LET n == x \div 10
         IN  <<0, (n \div Limb) \div Limb, (n \div Limb) % Limb, n % Limb>>

\* u64 << 32: the two high limbs are shifted out
Shl32(u) == <<u[3], u[4], 0, 0>>

\* an f64 too large for a whole number of tenths: its sign, its whole part
\* as five 16-bit limbs (most significant first) and its tenths
WideF64(neg, whole, tenth) == [neg |-> neg, whole |-> whole, tenth |-> tenth]

\* `as u64` of such an f64: the fraction is dropped, a negative value
\* saturates to 0 and a value of 2^64 or more to u64::MAX
WideF64AsU64(x) ==
    IF x.neg THEN <<0, 0, 0, 0>>
    ELSE IF x.whole[1] # 0 THEN <<Limb - 1, Limb - 1, Limb - 1, Limb - 1>>
    ELSE SubSeq(x.whole, 2, 5)

\* a wrong id: the position is cut to its low 32 bits before the `|`
PackMatchIdLow32(qry_contig_id, pos) ==
    LET hi == Shl32(U32AsU64(qry_contig_id))
        lo == <<0, 0, pos[3], pos[4]>>
    IN  [k \in 1..4 |-> BitOr(hi[k], lo[k])]

\* (qry_contig_id as u64) << 32 | pos, pos the position as u64
PackMatchId(qry_contig_id, pos) ==
    LET hi == Shl32(U32AsU64(qry_contig_id))
    IN  [k \in 1..4 |-> BitOr(hi[k], pos[k])]

\* (qry_contig_id as u64) << 32 | (records[0].qry_start_pos as u64)
match_id(m) == PackMatchId(m.qry_contig_id, F64AsU64(m.records[1].qry_start_pos))

\* the file lists given to the engine on its own
EngineInputs ==
    {<<>>} \cup {<<a>> : a \in SmallFiles}
      \cup {<<a, b>> : a \in SmallFiles, b \in SmallFiles}
      \cup {<<a, b, c>> : a \in SmallFiles, b \in SmallFiles, c \in SmallFiles}
      \cup {<<FileBig, FileA>>, <<FileC, FileBig>>}
      \cup {<<FileFull, FileA>>, <<FileEmpty, FileA>>}

(***************************************************************************)
(* State.                                                                  *)
(***************************************************************************)
\* a process: a request (its handler and its spawned task), or a test
NProcs == 2
Procs == 1..NProcs
Workers == 1..NThreads

VARIABLES
    \* stream_matches_multi, per calling process
    fileset,    \* the XmapFileSet passed in
    eng,        \* pc, file_pairs, the pair in hand, qry_groups_j, queue
    wk,         \* the spawned workers: pc, the popped chunk, position in it
    channel,    \* the unbounded channel's content
    senders,    \* live Sender handles (tx and its clones)
    sent,       \* history: every (file_i, file_j, match) passed to tx.send
    got,        \* history: the matches a test's recv loop has received
    \* XmapCache
    parsed_files,        \* hash -> records map
    chromosome_lengths,  \* hash -> lengths map
    \* get_or_parse, per calling process
    gp,         \* the call in progress: pc, arguments, locals
    gp_log,     \* history: the calls that have returned
    indices,      \* XmapCache.indices: hash -> index
    match_cache,  \* XmapCache.match_cache: key -> (match_id -> match)
    \* stream_xmap_matches, per request
    req,        \* the handler: pc, the upload, file_hashes, file_records, status
    cons,       \* the spawned task: pc, match_data, the bytes still to write
    pipe,       \* the duplex pipe: buffered bytes, the state of its two ends
    received,   \* history: the body bytes the client has read
    framed,     \* history: the matches whose frame the pipe has taken whole
    \* the unit tests of parse_xmap_file and build_index
    ut          \* pc, the content, the results of the calls

engineVars == <<fileset, eng, wk, channel, senders, sent, got>>

cacheVars == <<parsed_files, chromosome_lengths>>

parseVars == <<gp, gp_log>>

handlerVars == <<indices, match_cache, req, cons, pipe, received, framed>>

vars == <<engineVars, cacheVars, parseVars, handlerVars, ut>>

EmptyMap == [x \in {} |-> <<>>]

NoChunk == <<>>

IdleEng == [pc |-> "idle", file_pairs |-> <<>>, pair |-> 0,
            qry_groups_j |-> EmptyMap, queue |-> <<>>]

IdleWorkers == [w \in Workers |-> [pc |-> "none", chunk |-> NoChunk, idx |-> 0]]

EngineIdle ==
    /\ fileset = [p \in Procs |-> NewFileSet(<<>>)]
    /\ eng = [p \in Procs |-> IdleEng]
    /\ wk = [p \in Procs |-> IdleWorkers]
    /\ channel = [p \in Procs |-> <<>>]
    /\ senders = [p \in Procs |-> 0]
    /\ sent = [p \in Procs |-> <<>>]
    /\ got = [p \in Procs |-> <<>>]

\* get_or_parse calls one caller of the cache makes, one after the other
MaxCalls == 2

NoArc == <<0, 0>>
NoRecords == [arc |-> NoArc, entries |-> <<>>]
NoLengths == [arc |-> NoArc, entries |-> {}]

IdleCall == [pc |-> "idle", call |-> 0, hash |-> 0, content |-> "",
             records |-> NoRecords, lengths |-> NoLengths,
             parsed |-> FALSE, prior |-> {}, settled |-> FALSE]

\* XmapCache::new
CacheIdle ==
    /\ parsed_files = EmptyMap
    /\ chromosome_lengths = EmptyMap

ParseIdle ==
    /\ gp = [p \in Procs |-> IdleCall]
    /\ gp_log = {}

IdleReq == [pc |-> "idle", files |-> <<>>, broken |-> FALSE, k |-> 0,
            file_hashes |-> <<>>, file_records |-> <<>>,
            status |-> 0, body |-> "none", after |-> {}, before |-> <<>>]

IdleCons == [pc |-> "none", match_data |-> <<>>, bytes |-> <<>>, buf |-> <<>>,
             failed |-> FALSE]

NoPipe == [buf |-> <<>>, reader |-> "none", writer |-> "none", sent_at_drop |-> 0]

NoOutcome == [ok |-> FALSE, error |-> "", records |-> <<>>, lengths |-> {}]

IdleTest == [pc |-> "none", content |-> <<>>, first |-> NoOutcome,
             perm |-> <<>>, second |-> NoOutcome, index |-> EmptyMap]

HandlerIdle ==
    /\ ut = IdleTest
    /\ indices = EmptyMap
    /\ match_cache = EmptyMap
    /\ req = [p \in Procs |-> IdleReq]
    /\ cons = [p \in Procs |-> IdleCons]
    /\ pipe = [p \in Procs |-> NoPipe]
    /\ received = [p \in Procs |-> <<>>]
    /\ framed = [p \in Procs |-> <<>>]

(***************************************************************************)
(* stream_matches_multi: the steps.                                        *)
(***************************************************************************)
\* a wrong early return: tx is kept alive after rx is returned
EngineCallKeepsSender(p) ==
    /\ eng[p].pc = "call"
    /\ LET n == Len(fileset[p].files) IN
       IF n < 2
       THEN /\ eng' = [eng EXCEPT ![p].pc = "returned"]
            /\ senders' = [senders EXCEPT ![p] = 1]
       ELSE /\ eng' = [eng EXCEPT ![p].pc = "pair",
                                  ![p].file_pairs = FilePairs(n),
                                  ![p].pair = 1]
            /\ senders' = [senders EXCEPT ![p] = 1]
    /\ UNCHANGED <<fileset, wk, channel, sent, got>>
    /\ UNCHANGED <<cacheVars, parseVars, handlerVars, ut>>

\* the call, up to the loop over the pairs: the channel is created; with
\* fewer than two files rx is returned at once (and tx dropped)
EngineCall(p) ==
    /\ eng[p].pc = "call"
    /\ LET n == Len(fileset[p].files) IN
       IF n < 2
       THEN /\ eng' = [eng EXCEPT ![p].pc = "returned"]
            /\ senders' = [senders EXCEPT ![p] = 0]
       ELSE /\ eng' = [eng EXCEPT ![p].pc = "pair",
                                  ![p].file_pairs = FilePairs(n),
                                  ![p].pair = 1]
            /\ senders' = [senders EXCEPT ![p] = 1]
    /\ UNCHANGED <<fileset, wk, channel, sent, got>>
    /\ UNCHANGED <<cacheVars, parseVars, handlerVars, ut>>

\* one pass of the loop body up to the spawns: both grouping tables, the
\* queue of batches, and n_threads workers, each with a clone of tx
PairSetup(p) ==
    /\ eng[p].pc = "pair"
    /\ LET file_i == eng[p].file_pairs[eng[p].pair][1]
           file_j == eng[p].file_pairs[eng[p].pair][2]
           records_i == fileset[p].files[file_i + 1]
           records_j == fileset[p].files[file_j + 1]
       IN  \E order \in Orders(QryIds(records_i)) :
             /\ eng' = [eng EXCEPT
                          ![p].pc = "scope",
                          ![p].qry_groups_j = GroupMap(records_j),
                          ![p].queue = BuildQueue(GroupEntries(records_i, order))]
             /\ wk' = [wk EXCEPT ![p] =
                          [w \in Workers |-> [pc |-> "pop", chunk |-> NoChunk, idx |-> 0]]]
             /\ senders' = [senders EXCEPT ![p] = @ + NThreads]
    /\ UNCHANGED <<fileset, channel, sent, got>>
    /\ UNCHANGED <<cacheVars, parseVars, handlerVars, ut>>

\* while let Some(chunk) = queue.pop(); a worker that finds the queue empty
\* ends, dropping its clone of tx
WorkerPop(p, w) ==
    /\ eng[p].pc = "scope"
    /\ wk[p][w].pc = "pop"
    /\ IF eng[p].queue = <<>>
       THEN /\ wk' = [wk EXCEPT ![p][w].pc = "done"]
            /\ senders' = [senders EXCEPT ![p] = @ - 1]
            /\ UNCHANGED eng
       ELSE /\ wk' = [wk EXCEPT ![p][w] =
                        [pc |-> "item", chunk |-> Head(eng[p].queue), idx |-> 1]]
            /\ eng' = [eng EXCEPT ![p].queue = Tail(@)]
            /\ UNCHANGED senders
    /\ UNCHANGED <<fileset, channel, sent, got>>
    /\ UNCHANGED <<cacheVars, parseVars, handlerVars, ut>>

\* one turn of the loop over the chunk: probe qry_groups_j and, on a hit,
\* build the match and send it
WorkerItem(p, w) ==
    /\ eng[p].pc = "scope"
    /\ wk[p][w].pc = "item"
    /\ LET file_i == eng[p].file_pairs[eng[p].pair][1]
           file_j == eng[p].file_pairs[eng[p].pair][2]
           entry == wk[p][w].chunk[wk[p][w].idx]
           qry_id == entry[1]
           records_i == entry[2]
           last == wk[p][w].idx = Len(wk[p][w].chunk)
           probe == Probe(eng[p].qry_groups_j, qry_id)
       IN  /\ IF probe.some
              THEN LET match_data == NewMatch(file_i, file_j, qry_id, records_i,
                                              probe.records)
                   IN  /\ channel' = [channel EXCEPT ![p] = Append(@, match_data)]
                       /\ sent' = [sent EXCEPT ![p] =
                                     Append(@, [file_i |-> file_i, file_j |-> file_j,
                                                match |-> match_data])]
              ELSE UNCHANGED <<channel, sent>>
           /\ wk' = [wk EXCEPT ![p][w] =
                       IF last THEN [pc |-> "pop", chunk |-> NoChunk, idx |-> 0]
                       ELSE [@ EXCEPT !.idx = @ + 1]]
    /\ UNCHANGED <<fileset, eng, senders, got>>
    /\ UNCHANGED <<cacheVars, parseVars, handlerVars, ut>>

\* a wrong return: tx is still alive when rx is handed back
ScopeJoinKeepsSender(p) ==
    /\ eng[p].pc = "scope"
    /\ \A w \in Workers : wk[p][w].pc = "done"
    /\ IF eng[p].pair < Len(eng[p].file_pairs)
       THEN eng' = [eng EXCEPT ![p].pc = "pair", ![p].pair = @ + 1]
       ELSE eng' = [eng EXCEPT ![p].pc = "returned"]
    /\ wk' = [wk EXCEPT ![p] = IdleWorkers]
    /\ UNCHANGED <<fileset, channel, senders, sent, got>>
    /\ UNCHANGED <<cacheVars, parseVars, handlerVars, ut>>

\* rayon::scope returns when every worker has ended; then the next pair, or
\* the return of rx, which drops tx
ScopeJoin(p) ==
    /\ eng[p].pc = "scope"
    /\ \A w \in Workers : wk[p][w].pc = "done"
    /\ IF eng[p].pair < Len(eng[p].file_pairs)
       THEN /\ eng' = [eng EXCEPT ![p].pc = "pair", ![p].pair = @ + 1]
            /\ UNCHANGED senders
       ELSE /\ eng' = [eng EXCEPT ![p].pc = "returned"]
            /\ senders' = [senders EXCEPT ![p] = @ - 1]
    /\ wk' = [wk EXCEPT ![p] = IdleWorkers]
    /\ UNCHANGED <<fileset, channel, sent, got>>
    /\ UNCHANGED <<cacheVars, parseVars, handlerVars, ut>>

(***************************************************************************)
(* The tests' receive loop: while let Ok(match_data) = rx.recv().          *)
(***************************************************************************)
TestRecv(p) ==
    /\ eng[p].pc = "returned"
    /\ IF channel[p] # <<>>
       THEN /\ got' = [got EXCEPT ![p] = Append(@, Head(channel[p]))]
            /\ channel' = [channel EXCEPT ![p] = Tail(@)]
            /\ UNCHANGED eng
       ELSE /\ senders[p] = 0
            /\ eng' = [eng EXCEPT ![p].pc = "test_done"]
            /\ UNCHANGED <<got, channel>>
    /\ UNCHANGED <<fileset, wk, senders, sent>>
    /\ UNCHANGED <<cacheVars, parseVars, handlerVars, ut>>

(***************************************************************************)
(* The engine on its own, as the tests drive it: parse each file, build    *)
(* the file set, call stream_matches_multi, drain the receiver.            *)
(***************************************************************************)
\* the record maps parse_xmap_file can return for a list of contents
ParsedLists(contents) ==
    {fs \in [1..Len(contents) -> UNION {{o.records : o \in ParseOutcomes(contents[i])} :
                                           i \in 1..Len(contents)}] :
        \A i \in 1..Len(contents) :
            \E o \in ParseOutcomes(contents[i]) : o.ok /\ o.records = fs[i]}

InitEngine ==
    /\ \E contents \in EngineInputs : \E files \in ParsedLists(contents) :
          fileset = [p \in Procs |-> IF p = 1 THEN NewFileSet(files) ELSE NewFileSet(<<>>)]
    /\ eng = [p \in Procs |-> IF p = 1 THEN [IdleEng EXCEPT !.pc = "call"] ELSE IdleEng]
    /\ wk = [p \in Procs |-> IdleWorkers]
    /\ channel = [p \in Procs |-> <<>>]
    /\ senders = [p \in Procs |-> 0]
    /\ sent = [p \in Procs |-> <<>>]
    /\ got = [p \in Procs |-> <<>>]
    /\ CacheIdle
    /\ ParseIdle
    /\ HandlerIdle

NextEngine ==
    \E p \in Procs :
        \/ EngineCall(p)
        \/ PairSetup(p)
        \/ \E w \in Workers : WorkerPop(p, w)
        \/ \E w \in Workers : WorkerItem(p, w)
        \/ ScopeJoin(p)
        \/ TestRecv(p)

SpecEngine == InitEngine /\ [][NextEngine]_vars

(***************************************************************************)
(* The engine called on two parsed files in both orders: one caller is     *)
(* given [A, B], the other [B, A], as a test of the symmetry would do.     *)
(***************************************************************************)
SymmetryFiles == SmallFiles \cup {FileE, FileDup}

InitSymmetry ==
    /\ \E a \in SymmetryFiles, b \in SymmetryFiles :
          \E files \in ParsedLists(<<a, b>>) :
              fileset = [p \in Procs |-> IF p = 1 THEN NewFileSet(files)
                                         ELSE NewFileSet(Reverse(files))]
    /\ eng = [p \in Procs |-> [IdleEng EXCEPT !.pc = "call"]]
    /\ wk = [p \in Procs |-> IdleWorkers]
    /\ channel = [p \in Procs |-> <<>>]
    /\ senders = [p \in Procs |-> 0]
    /\ sent = [p \in Procs |-> <<>>]
    /\ got = [p \in Procs |-> <<>>]
    /\ CacheIdle
    /\ ParseIdle
    /\ HandlerIdle

SpecSymmetry == InitSymmetry /\ [][NextEngine]_vars

(***************************************************************************)
(* XmapCache::get_or_parse.                                                *)
(***************************************************************************)
\* the entry of a call that has returned
LogEntry(p, ok, records, lengths) ==
    [id |-> <<p, gp[p].call>>, hash |-> gp[p].hash, ok |-> ok,
     parsed |-> gp[p].parsed, records |-> records, lengths |-> lengths,
     prior |-> gp[p].prior, settled |-> gp[p].settled]

\* both maps hold the hash and no call is about to insert under it
Settled(hash) ==
    /\ hash \in DOMAIN parsed_files
    /\ hash \in DOMAIN chromosome_lengths
    /\ \A q \in Procs :
         gp[q].hash = hash => gp[q].pc \notin {"parse", "insert_records", "insert_lengths"}

\* the call: p enters get_or_parse(hash, content); prior and settled are
\* history: the calls for the hash that have returned Ok, and Settled(hash)
GpStart(p, hash, content) ==
    gp' = [gp EXCEPT ![p] =
             [pc |-> "get_records", call |-> gp[p].call + 1, hash |-> hash,
              content |-> content, records |-> NoRecords, lengths |-> NoLengths,
              parsed |-> FALSE,
              prior |-> {e.id : e \in {x \in gp_log : x.hash = hash /\ x.ok}},
              settled |-> Settled(hash)]]

\* line 309: self.parsed_files.get(&hash); on a hit the guard on the entry
\* is held while the lengths are looked up
GpGetRecords(p) ==
    /\ gp[p].pc = "get_records"
    /\ IF gp[p].hash \in DOMAIN parsed_files
       THEN gp' = [gp EXCEPT ![p].pc = "get_lengths",
                             ![p].records = parsed_files[gp[p].hash]]
       ELSE gp' = [gp EXCEPT ![p].pc = "parse"]
    /\ UNCHANGED <<cacheVars, gp_log>>
    /\ UNCHANGED <<engineVars, handlerVars, ut>>

\* lines 310-312: self.chromosome_lengths.get(&hash); a hit returns the
\* cached pair, a miss falls through to the parse
GpGetLengths(p) ==
    /\ gp[p].pc = "get_lengths"
    /\ IF gp[p].hash \in DOMAIN chromosome_lengths
       THEN /\ gp' = [gp EXCEPT ![p].pc = "returned",
                                ![p].lengths = chromosome_lengths[gp[p].hash]]
            /\ gp_log' = gp_log \cup
                 {LogEntry(p, TRUE, gp[p].records, chromosome_lengths[gp[p].hash])}
       ELSE /\ gp' = [gp EXCEPT ![p].pc = "parse", ![p].records = NoRecords]
            /\ UNCHANGED gp_log
    /\ UNCHANGED cacheVars
    /\ UNCHANGED <<engineVars, handlerVars, ut>>

\* a wrong parse: a failure is cached as an empty pair under the hash
GpParseCachesError(p) ==
    /\ gp[p].pc = "parse"
    /\ \E o \in ParseOutcomes(Content(gp[p].content)) :
         IF o.ok
         THEN /\ gp' = [gp EXCEPT
                          ![p].pc = "insert_records",
                          ![p].parsed = TRUE,
                          ![p].records = [arc |-> <<p, gp[p].call>>, entries |-> o.records],
                          ![p].lengths = [arc |-> <<p, gp[p].call>>, entries |-> o.lengths]]
              /\ UNCHANGED <<cacheVars, gp_log>>
         ELSE /\ gp' = [gp EXCEPT ![p].pc = "failed", ![p].parsed = TRUE]
              /\ parsed_files' = MapInsert(parsed_files, gp[p].hash,
                                           [NoRecords EXCEPT !.arc = <<p, gp[p].call>>])
              /\ chromosome_lengths' = MapInsert(chromosome_lengths, gp[p].hash,
                                                 [NoLengths EXCEPT !.arc = <<p, gp[p].call>>])
              /\ gp_log' = gp_log \cup
                   {[LogEntry(p, FALSE, NoRecords, NoLengths) EXCEPT !.parsed = TRUE]}
    /\ UNCHANGED <<engineVars, handlerVars, ut>>

\* line 315: parse_xmap_file(content)?; the two maps are new Arcs
GpParse(p) ==
    /\ gp[p].pc = "parse"
    /\ \E o \in ParseOutcomes(Content(gp[p].content)) :
         IF o.ok
         THEN /\ gp' = [gp EXCEPT
                          ![p].pc = "insert_records",
                          ![p].parsed = TRUE,
                          ![p].records = [arc |-> <<p, gp[p].call>>, entries |-> o.records],
                          ![p].lengths = [arc |-> <<p, gp[p].call>>, entries |-> o.lengths]]
              /\ UNCHANGED gp_log
         ELSE /\ gp' = [gp EXCEPT ![p].pc = "failed", ![p].parsed = TRUE]
              /\ gp_log' = gp_log \cup
                   {[LogEntry(p, FALSE, NoRecords, NoLengths) EXCEPT !.parsed = TRUE]}
    /\ UNCHANGED cacheVars
    /\ UNCHANGED <<engineVars, handlerVars, ut>>

\* line 316: self.parsed_files.insert(hash, records); the insert waits while
\* another caller holds a guard on the entry
GpInsertRecords(p) ==
    /\ gp[p].pc = "insert_records"
    /\ \A q \in Procs \ {p} : ~(gp[q].pc = "get_lengths" /\ gp[q].hash = gp[p].hash)
    /\ parsed_files' = MapInsert(parsed_files, gp[p].hash, gp[p].records)
    /\ gp' = [gp EXCEPT ![p].pc = "insert_lengths"]
    /\ UNCHANGED <<chromosome_lengths, gp_log>>
    /\ UNCHANGED <<engineVars, handlerVars, ut>>

\* a wrong insert: an empty table is stored in place of the parsed lengths
GpInsertLengthsEmpty(p) ==
    /\ gp[p].pc = "insert_lengths"
    /\ chromosome_lengths' = MapInsert(chromosome_lengths, gp[p].hash,
                                       [gp[p].lengths EXCEPT !.entries = {}])
    /\ gp' = [gp EXCEPT ![p].pc = "returned"]
    /\ gp_log' = gp_log \cup {LogEntry(p, TRUE, gp[p].records, gp[p].lengths)}
    /\ UNCHANGED parsed_files
    /\ UNCHANGED <<engineVars, handlerVars, ut>>

\* lines 317-318: self.chromosome_lengths.insert(hash, chr_lengths); Ok(..)
GpInsertLengths(p) ==
    /\ gp[p].pc = "insert_lengths"
    /\ chromosome_lengths' = MapInsert(chromosome_lengths, gp[p].hash, gp[p].lengths)
    /\ gp' = [gp EXCEPT ![p].pc = "returned"]
    /\ gp_log' = gp_log \cup {LogEntry(p, TRUE, gp[p].records, gp[p].lengths)}
    /\ UNCHANGED parsed_files
    /\ UNCHANGED <<engineVars, handlerVars, ut>>

(***************************************************************************)
(* The cache on its own: callers that hash a content and call              *)
(* get_or_parse, as the request handler does for each uploaded file.       *)
(***************************************************************************)
CacheInputs == {"A", "Dup", "Bad"}

\* lines 59 and 63-69 of the handler: hash the content, call get_or_parse
CallGetOrParse(p) ==
    /\ gp[p].pc \in {"idle", "returned", "failed"}
    /\ gp[p].call < MaxCalls
    /\ \E name \in CacheInputs : GpStart(p, hash_content(Content(name)), name)
    /\ UNCHANGED <<cacheVars, gp_log>>
    /\ UNCHANGED <<engineVars, handlerVars, ut>>

InitCache ==
    /\ EngineIdle
    /\ CacheIdle
    /\ ParseIdle
    /\ HandlerIdle

NextCache ==
    \E p \in Procs :
        \/ CallGetOrParse(p)
        \/ GpGetRecords(p)
        \/ GpGetLengths(p)
        \/ GpParse(p)
        \/ GpInsertRecords(p)
        \/ GpInsertLengths(p)

SpecCache == InitCache /\ [][NextCache]_vars

(***************************************************************************)
(* The parser and the indexer on their own, as the unit tests call them:   *)
(* parse_xmap_file on a content, once more on a permutation of its lines,  *)
(* and build_index on the records parsed.                                  *)
(***************************************************************************)
\* lines of a content under test
MaxLines == 3

GoodLine1 == XLine(1, 100, 1, 1000, 2000, 5000, 6000, ChPlus, D(15, 0), 2000, 250000)
GoodLine2 == XLine(2, 100, 2, 3000, 4000, 7000, 8000, ChMinus, D(14, 5), 4000, 117599)
\* entry id 1 and reference contig 1 once more, with other values
DupLine == XLine(1, 200, 1, 3500, 4500, 7500, 8500, ChMinus, D(13, 5), 4500, 180000)
\* 11 fields
ShortLine == SubSeq(GoodLine2, 1, MinFields - 1)
\* one blank field
BlankLine == <<T(<<ChSpace>>)>>
\* 12 fields, QryContigID no number
BadQryLine == [GoodLine2 EXCEPT ![2] = T(<<ChX>>)]
\* 12 fields, RefContigID above u8, Confidence no number
BadRefLine == [GoodLine1 EXCEPT ![3] = I(300), ![9] = T(<<ChX>>)]

\* a valid line of another query contig
GoodLine3 == XLine(3, 300, 2, 500, 1500, 2000, 3000, ChPlus, D(12, 5), 1500, 117599)

LinePool ==
    {HeaderLine, BlankLine, ShortLine, GoodLine1, GoodLine2, GoodLine3, DupLine,
     BadQryLine, BadRefLine}

ParseInputs == UNION {[1..n -> LinePool] : n \in 0..MaxLines}

\* let (records, chr_lengths) = parse_xmap_file(content)
TestParse ==
    /\ ut.pc = "start"
    /\ \E o \in ParseOutcomes(ut.content) :
          ut' = [ut EXCEPT !.pc = "parsed", !.first = o]
    /\ UNCHANGED <<engineVars, cacheVars, parseVars, handlerVars>>

\* the same lines in another order, parsed
TestParsePermuted ==
    /\ ut.pc = "parsed"
    /\ \E perm \in Perms(1..Len(ut.content)) :
          \E o \in ParseOutcomes([i \in 1..Len(ut.content) |-> ut.content[perm[i]]]) :
              ut' = [ut EXCEPT !.pc = "parsed_twice", !.perm = perm, !.second = o]
    /\ UNCHANGED <<engineVars, cacheVars, parseVars, handlerVars>>

\* let index = build_index(records)
TestBuildIndex ==
    /\ ut.pc = "parsed_twice"
    /\ ut.first.ok
    /\ ut' = [ut EXCEPT !.pc = "indexed", !.index = build_index(ut.first.records)]
    /\ UNCHANGED <<engineVars, cacheVars, parseVars, handlerVars>>

InitParse ==
    /\ EngineIdle
    /\ CacheIdle
    /\ ParseIdle
    /\ indices = EmptyMap
    /\ match_cache = EmptyMap
    /\ req = [p \in Procs |-> IdleReq]
    /\ cons = [p \in Procs |-> IdleCons]
    /\ pipe = [p \in Procs |-> NoPipe]
    /\ received = [p \in Procs |-> <<>>]
    /\ framed = [p \in Procs |-> <<>>]
    /\ \E content \in ParseInputs :
          ut = [IdleTest EXCEPT !.pc = "start", !.content = content]

NextParse ==
    \/ TestParse
    \/ TestParsePermuted
    \/ TestBuildIndex

SpecParse == InitParse /\ [][NextParse]_vars

(***************************************************************************)
(* cache_match's match_id on its own: the id is computed for two matches,  *)
(* each given by its query-contig id and its first record's start position.*)
(***************************************************************************)
\* query-contig ids (u32)
IdInputs == {0, 1, 2, 3, 100, 65535, 65536, 65537}

\* start positions (f64): 0.0, 1000.0, 1000.9, 65536.0, 2^32 - 1, 2^32,
\* 2^32 + 1000, 2^33, 3 * 2^32 + 0.5, 2^48, 2^64 and -5.0
PosInputs ==
    {WideF64(FALSE, <<0, 0, 0, 0, 0>>, 0),
     WideF64(FALSE, <<0, 0, 0, 0, 1000>>, 0),
     WideF64(FALSE, <<0, 0, 0, 0, 1000>>, 9),
     WideF64(FALSE, <<0, 0, 0, 1, 0>>, 0),
     WideF64(FALSE, <<0, 0, 0, Limb - 1, Limb - 1>>, 0),
     WideF64(FALSE, <<0, 0, 1, 0, 0>>, 0),
     WideF64(FALSE, <<0, 0, 1, 0, 1000>>, 0),
     WideF64(FALSE, <<0, 0, 2, 0, 0>>, 0),
     WideF64(FALSE, <<0, 0, 3, 0, 0>>, 5),
     WideF64(FALSE, <<0, 1, 0, 0, 0>>, 0),
     WideF64(FALSE, <<1, 0, 0, 0, 0>>, 0),
     WideF64(TRUE, <<0, 0, 0, 0, 5>>, 0)}

NoId == <<>>

\* let match_id = ..., for the first of the two matches
TestMatchIdFirst ==
    /\ ut.pc = "ids"
    /\ ut' = [ut EXCEPT !.pc = "id_first",
                        !.first = PackMatchId(ut.content[1].qry_contig_id,
                                              WideF64AsU64(ut.content[1].qry_start_pos))]
    /\ UNCHANGED <<engineVars, cacheVars, parseVars, handlerVars>>

\* and for the second
TestMatchIdSecond ==
    /\ ut.pc = "id_first"
    /\ ut' = [ut EXCEPT !.pc = "id_both",
                        !.second = PackMatchId(ut.content[2].qry_contig_id,
                                               WideF64AsU64(ut.content[2].qry_start_pos))]
    /\ UNCHANGED <<engineVars, cacheVars, parseVars, handlerVars>>

InitMatchId ==
    /\ EngineIdle
    /\ CacheIdle
    /\ ParseIdle
    /\ indices = EmptyMap
    /\ match_cache = EmptyMap
    /\ req = [p \in Procs |-> IdleReq]
    /\ cons = [p \in Procs |-> IdleCons]
    /\ pipe = [p \in Procs |-> NoPipe]
    /\ received = [p \in Procs |-> <<>>]
    /\ framed = [p \in Procs |-> <<>>]
    /\ \E q1 \in IdInputs, q2 \in IdInputs, s1 \in PosInputs, s2 \in PosInputs :
          ut = [IdleTest EXCEPT
                  !.pc = "ids",
                  !.content = <<[qry_contig_id |-> q1, qry_start_pos |-> s1],
                                [qry_contig_id |-> q2, qry_start_pos |-> s2]>>,
                  !.first = NoId, !.second = NoId]

NextMatchId == TestMatchIdFirst \/ TestMatchIdSecond

SpecMatchId == InitMatchId /\ [][NextMatchId]_vars

(***************************************************************************)
(* extract_sequence_2bit_in_chunks (the command-line tool): a usize is     *)
(* held as four 16-bit limbs, most significant first.                      *)
(***************************************************************************)
\* const CHUNK_SIZE: usize = 100000
CHUNK_SIZE == 100000

\* chunk reads a call is followed for
MaxReads == 4

UsizeMax == <<Limb - 1, Limb - 1, Limb - 1, Limb - 1>>

\* a < b on usize
ULt(a, b) == \E k \in 1..4 : a[k] < b[k] /\ \A j \in 1..(k - 1) : a[j] = b[j]

\* a + b on usize: the wrapped sum and whether it overflowed
UAdd(a, b) ==
    LET s4 == a[4] + b[4]
        s3 == a[3] + b[3] + (s4 \div Limb)
        s2 == a[2] + b[2] + (s3 \div Limb)
        s1 == a[1] + b[1] + (s2 \div Limb)
    IN  [val |-> <<s1 % Limb, s2 % Limb, s3 % Limb, s4 % Limb>>,
         overflow |-> s1 >= Limb]

\* a - b on usize: the wrapped difference and whether it overflowed
USub(a, b) ==
    LET d4 == a[4] - b[4]
        d3 == a[3] - b[3] - (IF d4 < 0 THEN 1 ELSE 0)
        d2 == a[2] - b[2] - (IF d3 < 0 THEN 1 ELSE 0)
        d1 == a[1] - b[1] - (IF d2 < 0 THEN 1 ELSE 0)
    IN  [val |-> <<d1 % Limb, d2 % Limb, d3 % Limb, d4 % Limb>>,
         overflow |-> d1 < 0]

\* a.min(b)
UMin(a, b) == IF ULt(b, a) THEN b ELSE a

\* String::with_capacity(n) panics with "capacity overflow" when n exceeds
\* isize::MAX
CapacityOverflow(n) == n[1] >= Limb \div 2

\* start and end of the calls: 0, 1000, 100000, 100001, 250000, 300000 and
\* usize::MAX less 250000, 100000, 99999, 50 and 0
ExtractInputs ==
    {U32AsU64(n) : n \in {0, 1000, CHUNK_SIZE, CHUNK_SIZE + 1, 250000, 300000}} \cup
    {USub(UsizeMax, U32AsU64(n)).val : n \in {250000, CHUNK_SIZE, CHUNK_SIZE - 1, 50, 0}}

IdleExtract == [pc |-> "call", start |-> <<>>, end |-> <<>>, poisoned |-> FALSE,
                chunk_start |-> <<>>, sequence |-> <<>>, reads |-> <<>>]

\* a wrong loop: the next chunk starts one base after the end of the last
ExtractChunkSkipsBase ==
    /\ ut.pc = "loop"
    /\ IF ULt(ut.chunk_start, ut.end)
       THEN /\ Len(ut.reads) < MaxReads
            /\ LET sum == UAdd(ut.chunk_start, U32AsU64(CHUNK_SIZE))
               IN  \/ /\ sum.overflow
                      /\ ut' = [ut EXCEPT !.pc = "panicked"]
                   \/ LET chunk_end == UMin(sum.val, ut.end)
                          range == <<ut.chunk_start, chunk_end>>
                      IN  \E ok \in BOOLEAN :
                             ut' = IF ok
                                   THEN [ut EXCEPT
                                           !.sequence = Append(@, range),
                                           !.reads = Append(@, [range |-> range, ok |-> TRUE]),
                                           !.chunk_start =
                                              IF ULt(chunk_end, ut.end)
                                              THEN UAdd(chunk_end, U32AsU64(1)).val
                                              ELSE chunk_end]
                                   ELSE [ut EXCEPT
                                           !.pc = "err",
                                           !.reads = Append(@, [range |-> range, ok |-> FALSE])]
       ELSE ut' = [ut EXCEPT !.pc = "ok"]
    /\ UNCHANGED <<engineVars, cacheVars, parseVars, handlerVars>>

\* genome.lock()?, sequence_length = end - start, String::with_capacity,
\* chunk_start = start; an overflowing subtraction panics in a build with
\* overflow checks and wraps in one without
ExtractBegin ==
    /\ ut.pc = "call"
    /\ IF ut.poisoned
       THEN ut' = [ut EXCEPT !.pc = "err"]
       ELSE LET sequence_length == USub(ut.end, ut.start)
            IN  \/ /\ sequence_length.overflow \/ CapacityOverflow(sequence_length.val)
                   /\ ut' = [ut EXCEPT !.pc = "panicked"]
                \/ /\ ~CapacityOverflow(sequence_length.val)
                   /\ ut' = [ut EXCEPT !.pc = "loop", !.chunk_start = ut.start]
    /\ UNCHANGED <<engineVars, cacheVars, parseVars, handlerVars>>

\* one turn of while chunk_start < end: chunk_end, read_sequence on
\* chunk_start..chunk_end, push_str or the error, chunk_start = chunk_end;
\* then Ok(sequence). The read is the twobit crate's: it succeeds or fails.
\* An overflowing chunk_start + CHUNK_SIZE panics in a build with overflow
\* checks and wraps in one without.
ExtractChunk ==
    /\ ut.pc = "loop"
    /\ IF ULt(ut.chunk_start, ut.end)
       THEN /\ Len(ut.reads) < MaxReads
            /\ LET sum == UAdd(ut.chunk_start, U32AsU64(CHUNK_SIZE))
               IN  \/ /\ sum.overflow
                      /\ ut' = [ut EXCEPT !.pc = "panicked"]
                   \/ LET chunk_end == UMin(sum.val, ut.end)
                          range == <<ut.chunk_start, chunk_end>>
                      IN  \E ok \in BOOLEAN :
                             ut' = IF ok
                                   THEN [ut EXCEPT
                                           !.sequence = Append(@, range),
                                           !.reads = Append(@, [range |-> range, ok |-> TRUE]),
                                           !.chunk_start = chunk_end]
                                   ELSE [ut EXCEPT
                                           !.pc = "err",
                                           !.reads = Append(@, [range |-> range, ok |-> FALSE])]
       ELSE ut' = [ut EXCEPT !.pc = "ok"]
    /\ UNCHANGED <<engineVars, cacheVars, parseVars, handlerVars>>

InitExtract ==
    /\ EngineIdle
    /\ CacheIdle
    /\ ParseIdle
    /\ indices = EmptyMap
    /\ match_cache = EmptyMap
    /\ req = [p \in Procs |-> IdleReq]
    /\ cons = [p \in Procs |-> IdleCons]
    /\ pipe = [p \in Procs |-> NoPipe]
    /\ received = [p \in Procs |-> <<>>]
    /\ framed = [p \in Procs |-> <<>>]
    /\ \E start \in ExtractInputs, end \in ExtractInputs, poisoned \in BOOLEAN :
          ut = [IdleExtract EXCEPT !.start = start, !.end = end, !.poisoned = poisoned]

NextExtract == ExtractBegin \/ ExtractChunk

SpecExtract == InitExtract /\ [][NextExtract]_vars

(***************************************************************************)
(* stream_xmap_matches: the handler.                                       *)
(***************************************************************************)
\* requests the server works on at a time
MaxInFlight == 1

\* the stream of request p has ended: the task is over and the body is closed
StreamOver(p) == cons[p].pc = "done" /\ pipe[p].reader # "open"

\* the handler of p has answered and nothing of the request is still running
Finished(p) ==
    \/ req[p].pc = "rejected"
    \/ req[p].pc = "responded" /\ req[p].body = "empty"
    \/ req[p].pc = "responded" /\ req[p].body = "stream" /\ StreamOver(p)

InFlight == {p \in Procs : req[p].pc # "idle" /\ ~Finished(p)}

\* the stream of q ran to its end with every frame written
CleanEnd(q) == cons[q].pc = "done" /\ ~cons[q].failed

\* a wrong error path: the error is dropped and the handler goes on to stream
RejectButStream(p, code) ==
    req' = [req EXCEPT ![p].pc = "spawn"]

\* return Err(StatusCode)
Reject(p, code) ==
    req' = [req EXCEPT ![p].pc = "rejected", ![p].status = code]

\* the four maps of the XmapCache
CacheState ==
    [parsed_files |-> parsed_files, chromosome_lengths |-> chromosome_lengths,
     indices |-> indices, match_cache |-> match_cache]

\* lines 34-52: the multipart fields are read, then the checks on the number
\* of files; `after` is history: the requests whose stream had ended cleanly;
\* `before` is history: the cache as the request found it
ReqEnter(p) ==
    /\ req[p].pc = "idle"
    /\ LET n == Len(req[p].files)
           after == {q \in Procs : CleanEnd(q)}
       IN  IF req[p].broken THEN Reject(p, 400)
           ELSE IF n = 0 \/ n > 3 THEN Reject(p, 400)
           ELSE IF n = 1
           THEN req' = [req EXCEPT ![p].pc = "responded", ![p].status = 200,
                                   ![p].body = "empty"]
           ELSE req' = [req EXCEPT ![p].pc = "file_loop", ![p].k = 1,
                                   ![p].after = after,
                                   ![p].before = CacheState]
    /\ UNCHANGED <<indices, match_cache, cons, pipe, received, framed>>
    /\ UNCHANGED <<engineVars, cacheVars, parseVars, ut>>

\* a request arrives while fewer than MaxInFlight are in flight
ReqStart(p) ==
    /\ Cardinality(InFlight) < MaxInFlight
    /\ ReqEnter(p)

\* a request arrives while the streams of the others in flight are in their
\* receive loop: its handler and its task run beside their tasks
ReqStartBehind(p) ==
    /\ \A q \in InFlight : req[q].body = "stream" /\ cons[q].pc # "engine"
    /\ ReqEnter(p)

\* lines 57-69: from_utf8, hash_content, file_hashes.push, and the blocking
\* task that calls get_or_parse
ReqFile(p) ==
    /\ req[p].pc = "file_loop"
    /\ LET name == req[p].files[req[p].k]
           hash == hash_content(Content(name))
       IN  IF ~IsUtf8(name)
           THEN /\ Reject(p, 400)
                /\ UNCHANGED gp
           ELSE /\ req' = [req EXCEPT ![p].pc = "await_parse",
                                      ![p].file_hashes = Append(@, hash)]
                /\ GpStart(p, hash, name)
    /\ UNCHANGED gp_log
    /\ UNCHANGED <<indices, match_cache, cons, pipe, received, framed>>
    /\ UNCHANGED <<engineVars, cacheVars, ut>>

\* lines 70-74: the task's result is awaited; a JoinError is a 500, a parse
\* error a 400;
\* file_records.push(records), then the next file or the loop over indices
ReqAwaitParse(p) ==
    /\ req[p].pc = "await_parse"
    /\ gp[p].pc \in {"returned", "failed", "cancelled"}
    /\ IF gp[p].pc = "cancelled"
       THEN Reject(p, 500)
       ELSE IF gp[p].pc = "failed"
       THEN Reject(p, 400)
       ELSE LET result == [records |-> gp[p].records, lengths |-> gp[p].lengths]
            IN  req' = [req EXCEPT
                          ![p].file_records = Append(@, result),
                          ![p].pc = IF req[p].k < Len(req[p].files)
                                    THEN "file_loop" ELSE "index_get",
                          ![p].k = IF req[p].k < Len(req[p].files)
                                   THEN req[p].k + 1 ELSE 2]
    /\ UNCHANGED <<indices, match_cache, cons, pipe, received, framed>>
    /\ UNCHANGED <<engineVars, cacheVars, parseVars, ut>>

\* a blocking task that is cancelled before it runs (the runtime is shutting
\* down) completes with a JoinError: the parse task awaited at line 70
ParseTaskCancelled(p) ==
    /\ req[p].pc = "await_parse"
    /\ gp[p].pc = "get_records"
    /\ gp' = [gp EXCEPT ![p].pc = "cancelled"]
    /\ UNCHANGED <<gp_log, handlerVars>>
    /\ UNCHANGED <<engineVars, cacheVars, ut>>

\* the index task awaited at line 90: .map_err(|_| INTERNAL_SERVER_ERROR)?
IndexTaskCancelled(p) ==
    /\ req[p].pc = "index_get"
    /\ Reject(p, 500)
    /\ UNCHANGED <<indices, match_cache, cons, pipe, received, framed>>
    /\ UNCHANGED <<engineVars, cacheVars, parseVars, ut>>

\* after the file of index k - 1: the next one, or the end of the loop
IndexNext(p) ==
    req' = [req EXCEPT ![p].pc = IF req[p].k < Len(req[p].files)
                                 THEN "index_get" ELSE "spawn",
                       ![p].k = req[p].k + 1]

\* lines 80-91, get_or_build_index line 331: for every file but the first,
\* self.indices.get(&hash); a hit returns the cached index
ReqIndexGet(p) ==
    /\ req[p].pc = "index_get"
    /\ IF req[p].file_hashes[req[p].k] \in DOMAIN indices
       THEN IndexNext(p)
       ELSE req' = [req EXCEPT ![p].pc = "index_insert"]
    /\ UNCHANGED <<indices, match_cache, cons, pipe, received, framed>>
    /\ UNCHANGED <<engineVars, cacheVars, parseVars, ut>>

\* get_or_build_index lines 335-337: build_index(records), indices.insert
ReqIndexInsert(p) ==
    /\ req[p].pc = "index_insert"
    /\ LET records == req[p].file_records[req[p].k].records
       IN  indices' = MapInsert(indices, req[p].file_hashes[req[p].k],
                                [arc |-> <<p, req[p].k>>,
                                 entries |-> build_index(records.entries)])
    /\ IndexNext(p)
    /\ UNCHANGED <<match_cache, cons, pipe, received, framed>>
    /\ UNCHANGED <<engineVars, cacheVars, parseVars, ut>>

\* lines 97-104 and 121-129: the file set, the duplex pipe, the cache key,
\* the spawned task, and the response whose body reads the pipe
ReqSpawn(p) ==
    /\ req[p].pc = "spawn"
    /\ fileset' = [fileset EXCEPT ![p] =
                     NewFileSet([i \in 1..Len(req[p].file_records) |->
                                    req[p].file_records[i].records.entries])]
    /\ eng' = [eng EXCEPT ![p] = [IdleEng EXCEPT !.pc = "call"]]
    /\ cons' = [cons EXCEPT ![p].pc = "engine"]
    /\ pipe' = [pipe EXCEPT ![p] = [NoPipe EXCEPT !.reader = "open", !.writer = "open"]]
    /\ req' = [req EXCEPT ![p].pc = "responded", ![p].status = 200,
                          ![p].body = "stream"]
    /\ UNCHANGED <<wk, channel, senders, sent, got>>
    /\ UNCHANGED <<indices, match_cache, received, framed>>
    /\ UNCHANGED <<cacheVars, parseVars, ut>>

(***************************************************************************)
(* The spawned task (lines 104-119) and the reader of the body.            *)
(***************************************************************************)
\* let cache_key = file_hashes.into_boxed_slice()
cache_key(p) == req[p].file_hashes

\* a wrong end: after a failed write the loop goes on to the next recv
TaskEndRetry(p, failed) ==
    IF failed
    THEN /\ cons' = [cons EXCEPT ![p].pc = "recv", ![p].failed = TRUE]
         /\ UNCHANGED pipe
    ELSE /\ cons' = [cons EXCEPT ![p].pc = "done", ![p].match_data = <<>>,
                                 ![p].bytes = <<>>, ![p].buf = <<>>]
         /\ pipe' = [pipe EXCEPT ![p].writer = "dropped"]

\* the task ends: writer is dropped
TaskEnd(p, failed) ==
    /\ cons' = [cons EXCEPT ![p].pc = "done", ![p].failed = failed,
                            ![p].match_data = <<>>, ![p].bytes = <<>>,
                            ![p].buf = <<>>]
    /\ pipe' = [pipe EXCEPT ![p].writer = "dropped"]

\* line 107: rx.recv(), reached once stream_matches_multi (line 105) has
\* returned; Err ends the loop when the channel is empty and every Sender
\* is gone
ConsRecv(p) ==
    /\ cons[p].pc \in {"engine", "recv"}
    /\ eng[p].pc = "returned"
    /\ IF channel[p] # <<>>
       THEN /\ cons' = [cons EXCEPT ![p].pc = "cache_entry",
                                    ![p].match_data = Head(channel[p])]
            /\ channel' = [channel EXCEPT ![p] = Tail(@)]
            /\ UNCHANGED pipe
       ELSE /\ senders[p] = 0
            /\ TaskEnd(p, FALSE)
            /\ UNCHANGED channel
    /\ UNCHANGED <<fileset, eng, wk, senders, sent, got>>
    /\ UNCHANGED <<indices, match_cache, req, received, framed>>
    /\ UNCHANGED <<cacheVars, parseVars, ut>>

\* a wrong entry: the key is looked up and, when it was absent, a new inner
\* map is inserted in a second step, over whatever is there by then
ConsCacheEntryRacy(p) ==
    /\ cons[p].pc \in {"cache_entry", "cache_create"}
    /\ IF cons[p].pc = "cache_create"
       THEN /\ match_cache' = MapInsert(match_cache, cache_key(p), EmptyMap)
            /\ cons' = [cons EXCEPT ![p].pc = "cache_insert"]
       ELSE /\ UNCHANGED match_cache
            /\ cons' = [cons EXCEPT ![p].pc = IF cache_key(p) \in DOMAIN match_cache
                                              THEN "cache_insert" ELSE "cache_create"]
    /\ UNCHANGED <<indices, req, pipe, received, framed>>
    /\ UNCHANGED <<engineVars, cacheVars, parseVars, ut>>

\* cache_match lines 346-350: entry(key).or_insert_with(..), the inner map
ConsCacheEntry(p) ==
    /\ cons[p].pc = "cache_entry"
    /\ match_cache' = IF cache_key(p) \in DOMAIN match_cache THEN match_cache
                      ELSE MapInsert(match_cache, cache_key(p), EmptyMap)
    /\ cons' = [cons EXCEPT ![p].pc = "cache_insert"]
    /\ UNCHANGED <<indices, req, pipe, received, framed>>
    /\ UNCHANGED <<engineVars, cacheVars, parseVars, ut>>

\* a wrong frame: the payload is written first, its length after it
ConsCacheInsertPayloadFirst(p) ==
    /\ cons[p].pc = "cache_insert"
    /\ LET m == cons[p].match_data
           bytes == SerializeMatch(m)
       IN  /\ match_cache' = [match_cache EXCEPT ![cache_key(p)] =
                                 MapInsert(@, match_id(m), m)]
           /\ cons' = [cons EXCEPT ![p].pc = "write_len", ![p].bytes = LengthPrefix(bytes),
                                   ![p].buf = bytes]
    /\ UNCHANGED <<indices, req, pipe, received, framed>>
    /\ UNCHANGED <<engineVars, cacheVars, parseVars, ut>>

\* cache_match lines 352-354: matches.insert(match_id, match_data); then
\* lines 111-112: the payload and its length prefix
ConsCacheInsert(p) ==
    /\ cons[p].pc = "cache_insert"
    /\ LET m == cons[p].match_data
           bytes == SerializeMatch(m)
       IN  /\ match_cache' = [match_cache EXCEPT ![cache_key(p)] =
                                 MapInsert(@, match_id(m), m)]
           /\ cons' = [cons EXCEPT ![p].pc = "write_len", ![p].bytes = bytes,
                                   ![p].buf = LengthPrefix(bytes)]
    /\ UNCHANGED <<indices, req, pipe, received, framed>>
    /\ UNCHANGED <<engineVars, cacheVars, parseVars, ut>>

\* a wrong pipe: a write is taken whole, whatever the free space
ConsWriteUnbounded(p) ==
    /\ cons[p].pc \in {"write_len", "write_payload"}
    /\ IF pipe[p].reader = "dropped"
       THEN /\ TaskEnd(p, TRUE)
            /\ UNCHANGED framed
       ELSE /\ pipe' = [pipe EXCEPT ![p].buf = @ \o cons[p].buf]
            /\ IF cons[p].pc = "write_len"
               THEN /\ cons' = [cons EXCEPT ![p].pc = "write_payload",
                                            ![p].buf = cons[p].bytes]
                    /\ UNCHANGED framed
               ELSE /\ cons' = [cons EXCEPT ![p].pc = "recv",
                                            ![p].match_data = <<>>,
                                            ![p].bytes = <<>>, ![p].buf = <<>>]
                    /\ framed' = [framed EXCEPT ![p] = Append(@, cons[p].match_data)]
    /\ UNCHANGED <<indices, match_cache, req, received>>
    /\ UNCHANGED <<engineVars, cacheVars, parseVars, ut>>

\* lines 113-114: writer.write_all(&len), writer.write_all(&bytes), one
\* write at a time: the pipe takes what its free space allows; a write
\* fails once the reading end is gone, and the loop breaks
ConsWrite(p) ==
    /\ cons[p].pc \in {"write_len", "write_payload"}
    /\ IF pipe[p].reader = "dropped"
       THEN /\ TaskEnd(p, TRUE)
            /\ UNCHANGED framed
       ELSE LET free == DuplexCapacity - Len(pipe[p].buf)
                n == Min(free, Len(cons[p].buf))
                rest == SubSeq(cons[p].buf, n + 1, Len(cons[p].buf))
            IN  /\ free > 0
                /\ pipe' = [pipe EXCEPT ![p].buf = @ \o SubSeq(cons[p].buf, 1, n)]
                /\ IF rest # <<>>
                   THEN /\ cons' = [cons EXCEPT ![p].buf = rest]
                        /\ UNCHANGED framed
                   ELSE IF cons[p].pc = "write_len"
                   THEN /\ cons' = [cons EXCEPT ![p].pc = "write_payload",
                                                ![p].buf = cons[p].bytes]
                        /\ UNCHANGED framed
                   ELSE /\ cons' = [cons EXCEPT ![p].pc = "recv",
                                                ![p].match_data = <<>>,
                                                ![p].bytes = <<>>, ![p].buf = <<>>]
                        /\ framed' = [framed EXCEPT ![p] = Append(@, cons[p].match_data)]
    /\ UNCHANGED <<indices, match_cache, req, received>>
    /\ UNCHANGED <<engineVars, cacheVars, parseVars, ut>>

\* the body stream polls the reading end: the buffered bytes, or the end of
\* the stream once the writer is dropped and the buffer is empty
ClientRead(p) ==
    /\ pipe[p].reader = "open"
    /\ IF pipe[p].buf # <<>>
       THEN /\ received' = [received EXCEPT ![p] = @ \o pipe[p].buf]
            /\ pipe' = [pipe EXCEPT ![p].buf = <<>>]
       ELSE /\ pipe[p].writer = "dropped"
            /\ pipe' = [pipe EXCEPT ![p].reader = "eof"]
            /\ UNCHANGED received
    /\ UNCHANGED <<indices, match_cache, req, cons, framed>>
    /\ UNCHANGED <<engineVars, cacheVars, parseVars, ut>>

\* the client goes away: the body, and with it the reading end, is dropped;
\* `sent_at_drop` is history: the matches the engine had sent by then
ClientDrop(p) ==
    /\ pipe[p].reader = "open"
    /\ pipe' = [pipe EXCEPT ![p].reader = "dropped", ![p].sent_at_drop = Len(sent[p])]
    /\ UNCHANGED <<indices, match_cache, req, cons, received, framed>>
    /\ UNCHANGED <<engineVars, cacheVars, parseVars, ut>>

(***************************************************************************)
(* The server: requests that arrive with an upload each.                   *)
(***************************************************************************)
Upload(files, broken) == [files |-> files, broken |-> broken]

\* the uploads of a run, one per request in turn
Scenarios ==
    {<<Upload(<<"A", "B">>, FALSE), Upload(<<"A", "B">>, FALSE)>>,
     <<Upload(<<"A", "B">>, FALSE), Upload(<<"B", "A">>, FALSE)>>,
     <<Upload(<<"A", "B", "C">>, FALSE), Upload(<<"C">>, FALSE)>>,
     <<Upload(<<"B", "B">>, FALSE), Upload(<<"A", "E">>, FALSE)>>,
     <<Upload(<<"A", "Bad">>, FALSE), Upload(<<"A", "B", "C", "A">>, FALSE)>>,
     <<Upload(<<"A", "Bin">>, FALSE), Upload(<<"A", "B">>, TRUE)>>,
     <<Upload(<<"D", "C">>, FALSE), Upload(<<>>, FALSE)>>,
     <<Upload(<<"Bin", "A">>, FALSE), Upload(<<"A", "E", "Bin">>, FALSE)>>,
     <<Upload(<<"E", "Bad">>, FALSE), Upload(<<"C", "E">>, FALSE)>>}

Init ==
    /\ EngineIdle
    /\ CacheIdle
    /\ ParseIdle
    /\ ut = IdleTest
    /\ indices = EmptyMap
    /\ match_cache = EmptyMap
    /\ \E sc \in Scenarios :
          req = [p \in Procs |->
                   LET u == sc[((p - 1) % Len(sc)) + 1]
                   IN  [IdleReq EXCEPT !.files = u.files, !.broken = u.broken]]
    /\ cons = [p \in Procs |-> IdleCons]
    /\ pipe = [p \in Procs |-> NoPipe]
    /\ received = [p \in Procs |-> <<>>]
    /\ framed = [p \in Procs |-> <<>>]

Next ==
    \E p \in Procs :
        \/ ReqStart(p)
        \/ ReqFile(p)
        \/ ReqAwaitParse(p)
        \/ ParseTaskCancelled(p)
        \/ IndexTaskCancelled(p)
        \/ ReqIndexGet(p)
        \/ ReqIndexInsert(p)
        \/ ReqSpawn(p)
        \/ GpGetRecords(p)
        \/ GpGetLengths(p)
        \/ GpParse(p)
        \/ GpInsertRecords(p)
        \/ GpInsertLengths(p)
        \/ EngineCall(p)
        \/ PairSetup(p)
        \/ \E w \in Workers : WorkerPop(p, w)
        \/ \E w \in Workers : WorkerItem(p, w)
        \/ ScopeJoin(p)
        \/ ConsRecv(p)
        \/ ConsCacheEntry(p)
        \/ ConsCacheInsert(p)
        \/ ConsWrite(p)
        \/ ClientRead(p)
        \/ ClientDrop(p)

Spec == Init /\ [][Next]_vars

(***************************************************************************)
(* The server with overlapping requests: a request is taken in while the   *)
(* tasks of the earlier ones are streaming, so that the tasks call         *)
(* cache_match side by side; the clients read their bodies to the end and  *)
(* the runtime stays up.                                                   *)
(***************************************************************************)
TaskScenarios ==
    {<<Upload(<<"A", "A">>, FALSE), Upload(<<"A", "A">>, FALSE)>>,
     <<Upload(<<"A", "A">>, FALSE), Upload(<<"A", "B">>, FALSE)>>}

InitTasks ==
    /\ EngineIdle
    /\ CacheIdle
    /\ ParseIdle
    /\ ut = IdleTest
    /\ indices = EmptyMap
    /\ match_cache = EmptyMap
    /\ \E sc \in TaskScenarios :
          req = [p \in Procs |->
                   LET u == sc[((p - 1) % Len(sc)) + 1]
                   IN  [IdleReq EXCEPT !.files = u.files, !.broken = u.broken]]
    /\ cons = [p \in Procs |-> IdleCons]
    /\ pipe = [p \in Procs |-> NoPipe]
    /\ received = [p \in Procs |-> <<>>]
    /\ framed = [p \in Procs |-> <<>>]

NextTasks ==
    \E p \in Procs :
        \/ ReqStartBehind(p)
        \/ ReqFile(p)
        \/ ReqAwaitParse(p)
        \/ ReqIndexGet(p)
        \/ ReqIndexInsert(p)
        \/ ReqSpawn(p)
        \/ GpGetRecords(p)
        \/ GpGetLengths(p)
        \/ GpParse(p)
        \/ GpInsertRecords(p)
        \/ GpInsertLengths(p)
        \/ EngineCall(p)
        \/ PairSetup(p)
        \/ \E w \in Workers : WorkerPop(p, w)
        \/ \E w \in Workers : WorkerItem(p, w)
        \/ ScopeJoin(p)
        \/ ConsRecv(p)
        \/ ConsCacheEntry(p)
        \/ ConsCacheInsert(p)
        \/ ConsWrite(p)
        \/ ClientRead(p)

SpecTasks == InitTasks /\ [][NextTasks]_vars

(***************************************************************************)
(* The server with an upload whose stream does not fit the duplex pipe.    *)
(***************************************************************************)
WideScenarios ==
    {<<Upload(<<"Wide", "Wide">>, FALSE), Upload(<<>>, FALSE)>>}

InitWide ==
    /\ EngineIdle
    /\ CacheIdle
    /\ ParseIdle
    /\ ut = IdleTest
    /\ indices = EmptyMap
    /\ match_cache = EmptyMap
    /\ \E sc \in WideScenarios :
          req = [p \in Procs |->
                   LET u == sc[((p - 1) % Len(sc)) + 1]
                   IN  [IdleReq EXCEPT !.files = u.files, !.broken = u.broken]]
    /\ cons = [p \in Procs |-> IdleCons]
    /\ pipe = [p \in Procs |-> NoPipe]
    /\ received = [p \in Procs |-> <<>>]
    /\ framed = [p \in Procs |-> <<>>]

SpecWide == InitWide /\ [][Next]_vars

(***************************************************************************)
(* The server under fair scheduling: a handler, a blocking task, a thread  *)
(* inside stream_matches_multi, a worker, the spawned task or a reading    *)
(* client that can take a step is not left waiting forever.                *)
(***************************************************************************)
HandlerStep(p) ==
    \/ ReqStart(p) \/ ReqFile(p) \/ ReqAwaitParse(p)
    \/ ReqIndexGet(p) \/ ReqIndexInsert(p) \/ ReqSpawn(p)

ParseStep(p) ==
    \/ GpGetRecords(p) \/ GpGetLengths(p) \/ GpParse(p)
    \/ GpInsertRecords(p) \/ GpInsertLengths(p)

EngineStep(p) ==
    \/ EngineCall(p) \/ PairSetup(p) \/ ScopeJoin(p)
    \/ \E w \in Workers : WorkerPop(p, w) \/ WorkerItem(p, w)

TaskStep(p) ==
    ConsRecv(p) \/ ConsCacheEntry(p) \/ ConsCacheInsert(p) \/ ConsWrite(p)

\* a step of the server for request p; of the four kinds at most one can be
\* taken at a time: the handler awaits its blocking task, and the spawned
\* task is inside stream_matches_multi until it returns
ServerStep(p) == HandlerStep(p) \/ ParseStep(p) \/ EngineStep(p) \/ TaskStep(p)

Fairness ==
    \A p \in Procs : WF_vars(ServerStep(p)) /\ WF_vars(ClientRead(p))

\* uploads of two and of three parseable files, with three, two and no match
FairScenarios ==
    {<<Upload(<<"A", "B", "C">>, FALSE), Upload(<<"C">>, FALSE)>>,
     <<Upload(<<"B", "B">>, FALSE), Upload(<<"A", "E">>, FALSE)>>}

InitFair ==
    /\ EngineIdle
    /\ CacheIdle
    /\ ParseIdle
    /\ ut = IdleTest
    /\ indices = EmptyMap
    /\ match_cache = EmptyMap
    /\ \E sc \in FairScenarios :
          req = [p \in Procs |->
                   LET u == sc[((p - 1) % Len(sc)) + 1]
                   IN  [IdleReq EXCEPT !.files = u.files, !.broken = u.broken]]
    /\ cons = [p \in Procs |-> IdleCons]
    /\ pipe = [p \in Procs |-> NoPipe]
    /\ received = [p \in Procs |-> <<>>]
    /\ framed = [p \in Procs |-> <<>>]

SpecFair == InitFair /\ [][Next]_vars /\ Fairness

(***************************************************************************)
(* Properties of the match engine.                                         *)
(***************************************************************************)
\* file number i (from 0) of p's file set has a record of query contig q
HasContig(p, i, q) ==
    \E k \in 1..Len(fileset[p].files[i + 1]) :
        fileset[p].files[i + 1][k].qry_contig_id = q

FileIdx(p) == 0..(Len(fileset[p].files) - 1)

AllContigs(p) == UNION {QryIds(fileset[p].files[i + 1]) : i \in FileIdx(p)}

\* the sends made so far for pair (i, j) and query contig q
SentFor(p, i, j, q) ==
    {k \in 1..Len(sent[p]) :
        /\ sent[p][k].file_i = i
        /\ sent[p][k].file_j = j
        /\ sent[p][k].match.qry_contig_id = q}

EngineReturned(p) == eng[p].pc \in {"returned", "test_done"}

\* C1: for every pair (i, j), i < j, and every query contig with a record in
\* both files, the workers never send two matches, and once
\* stream_matches_multi has returned they have sent exactly one, whatever
\* the interleaving of the workers.
C1_OneMatchPerSharedContig ==
    \A p \in Procs : \A i, j \in FileIdx(p) : \A q \in AllContigs(p) :
        (i < j /\ HasContig(p, i, q) /\ HasContig(p, j, q)) =>
            /\ Cardinality(SentFor(p, i, j, q)) <= 1
            /\ EngineReturned(p) => Cardinality(SentFor(p, i, j, q)) = 1

\* two workers are each in the middle of a batch, and a match has been sent
C1_Witness ==
    \E p \in Procs :
        /\ \A w \in Workers : w <= 2 => wk[p][w].pc = "item"
        /\ sent[p] # <<>>

\* C2: no match is ever sent for a query contig that lacks a record in
\* either file of the pair it is sent for.
C2_IntersectionOnly ==
    \A p \in Procs : \A k \in 1..Len(sent[p]) :
        /\ HasContig(p, sent[p][k].file_i, sent[p][k].match.qry_contig_id)
        /\ HasContig(p, sent[p][k].file_j, sent[p][k].match.qry_contig_id)

\* the engine has returned, a contig of file i is missing from file j, and
\* a match was sent for another contig of that pair
C2_Witness ==
    \E p \in Procs : \E i, j \in FileIdx(p) : \E q, q2 \in AllContigs(p) :
        /\ EngineReturned(p)
        /\ i < j /\ HasContig(p, i, q) /\ ~HasContig(p, j, q)
        /\ SentFor(p, i, j, q) = {}
        /\ SentFor(p, i, j, q2) # {}

\* the pairs (i, j), i < j, whose two files both hold query contig q
SharingPairs(p, q) ==
    {pr \in FileIdx(p) \X FileIdx(p) :
        pr[1] < pr[2] /\ HasContig(p, pr[1], q) /\ HasContig(p, pr[2], q)}

\* C3: once the engine has returned, the number of matches sent for a query
\* contig is the number of pairs whose two files both hold it, and every
\* match is built from the records of exactly two files.
C3_PairwiseNotMerged ==
    \A p \in Procs :
        /\ EngineReturned(p) =>
             \A q \in AllContigs(p) :
                Cardinality({k \in 1..Len(sent[p]) : sent[p][k].match.qry_contig_id = q})
                  = Cardinality(SharingPairs(p, q))
        /\ \A k \in 1..Len(sent[p]) :
             LET m == sent[p][k].match
             IN  Cardinality({m.records[x].file_index : x \in 1..Len(m.records)}) = 2

\* three files that all hold one contig: three matches have been sent for it
C3_Witness ==
    \E p \in Procs : \E q \in AllContigs(p) :
        /\ EngineReturned(p)
        /\ Len(fileset[p].files) = 3
        /\ Cardinality(SharingPairs(p, q)) = 3
        /\ Cardinality({k \in 1..Len(sent[p]) : sent[p][k].match.qry_contig_id = q}) = 3

(***************************************************************************)
(* Properties of get_or_parse.                                             *)
(***************************************************************************)
\* two results hold the same records under the same entry ids and the same
\* length under every reference contig
ContentEqual(a, b) ==
    /\ Range(a.records.entries) = Range(b.records.entries)
    /\ a.lengths.entries = b.lengths.entries

\* the returned calls made for a hash after a call for it had returned Ok
SecondCalls == {c \in gp_log : c.prior # {}}

\* C5: a call of get_or_parse made for a hash for which a call has already
\* returned Ok runs no parse and returns a result content-equal to the
\* result of that earlier call.
C5_SecondCallEqualNoParse ==
    \A c \in SecondCalls :
        /\ c.ok
        /\ ~c.parsed
        /\ \A e \in gp_log : e.id \in c.prior => ContentEqual(c, e)

\* the part of C5 that the cache keeps: the later call runs no parse
C5_SecondCallNoParse ==
    \A c \in SecondCalls : c.ok /\ ~c.parsed

Quiescent == \A p \in Procs : gp[p].pc \in {"idle", "returned", "failed"}

\* the calls for hash h that parsed and returned Ok
Parsers(h) == {c \in gp_log : c.hash = h /\ c.ok /\ c.parsed}

\* C6 as claimed: once all the calls have returned, the ParsedFile every
\* caller received is the one stored in the cache for its hash.
C6_EachCallerHoldsStored ==
    Quiescent =>
        \A c \in gp_log : c.ok =>
            /\ c.records.arc = parsed_files[c.hash].arc
            /\ c.lengths.arc = chromosome_lengths[c.hash].arc

\* C6 as amended: once all the calls have returned the cache stores for the
\* hash one records map and one lengths map, each the output of one of the
\* callers' parses; a caller that parsed holds its own parse, any other
\* caller holds maps taken from the cache; and a call begun once the hash
\* was settled ran no parse and holds exactly the stored pair.
C6_ConvergeOnStored ==
    /\ Quiescent =>
         \A c \in gp_log : c.ok =>
            /\ c.hash \in DOMAIN parsed_files
            /\ c.hash \in DOMAIN chromosome_lengths
            /\ parsed_files[c.hash].arc \in {e.id : e \in Parsers(c.hash)}
            /\ chromosome_lengths[c.hash].arc \in {e.id : e \in Parsers(c.hash)}
            /\ IF c.parsed
               THEN c.records.arc = c.id /\ c.lengths.arc = c.id
               ELSE /\ c.records.arc \in {e.id : e \in Parsers(c.hash)}
                    /\ c.lengths.arc \in {e.id : e \in Parsers(c.hash)}
    /\ \A c \in gp_log : c.settled =>
            /\ c.ok /\ ~c.parsed
            /\ c.records.arc = parsed_files[c.hash].arc
            /\ c.lengths.arc = chromosome_lengths[c.hash].arc

\* two callers raced past the empty cache and both parsed, and a call made
\* once the hash was settled has returned
C6_Witness ==
    /\ Quiescent
    /\ \E c1, c2, c3 \in gp_log :
         /\ c1.id # c2.id /\ c1.hash = c2.hash /\ c3.hash = c1.hash
         /\ c1.ok /\ c1.parsed /\ c2.ok /\ c2.parsed
         /\ c3.settled
         /\ c1.records.arc # parsed_files[c1.hash].arc

(***************************************************************************)
(* The reader of a framed stream: a 4-byte little-endian length, then that *)
(* many bytes of payload, read back field by field.                        *)
(***************************************************************************)
RECURSIVE FromLE(_)
FromLE(b) == IF b = <<>> THEN 0 ELSE b[1] + 256 * FromLE(Tail(b))

Take(b, pos, n) == SubSeq(b, pos, pos + n - 1)

\* the bytes of a record whose orientation is a one-byte char
RecordBytes == 58

DeserializeRecord(b) ==
    [file_index |-> FromLE(Take(b, 1, 8)),
     ref_contig_id |-> b[9],
     qry_start_pos |-> FromLE(Take(b, 10, 8)),
     qry_end_pos |-> FromLE(Take(b, 18, 8)),
     ref_start_pos |-> FromLE(Take(b, 26, 8)),
     ref_end_pos |-> FromLE(Take(b, 34, 8)),
     orientation |-> b[42],
     confidence |-> FromLE(Take(b, 43, 8)),
     ref_len |-> FromLE(Take(b, 51, 8))]

NoDecode == [ok |-> FALSE, matches |-> <<>>]

\* the payload must be used up exactly
DeserializeMatch(b) ==
    IF Len(b) < 12 THEN NoDecode
    ELSE LET n_idx == FromLE(Take(b, 5, 8))
             at == 13 + 8 * n_idx
         IN  IF Len(b) < at + 7 THEN NoDecode
             ELSE LET n_rec == FromLE(Take(b, at, 8))
                      first == at + 8
                  IN  IF Len(b) # first - 1 + RecordBytes * n_rec THEN NoDecode
                      ELSE [ok |-> TRUE,
                            matches |->
                              <<[qry_contig_id |-> FromLE(Take(b, 1, 4)),
                                 file_indices |->
                                   [k \in 1..n_idx |-> FromLE(Take(b, 13 + 8 * (k - 1), 8))],
                                 records |->
                                   [k \in 1..n_rec |->
                                      DeserializeRecord(
                                        Take(b, first + RecordBytes * (k - 1),
                                             RecordBytes))]]>>]

RECURSIVE DecodeStream(_)
DecodeStream(s) ==
    IF s = <<>> THEN [ok |-> TRUE, matches |-> <<>>]
    ELSE IF Len(s) < 4 THEN NoDecode
    ELSE LET n == FromLE(Take(s, 1, 4))
         IN  IF Len(s) < 4 + n THEN NoDecode
             ELSE LET d == DeserializeMatch(Take(s, 5, n))
                      r == DecodeStream(SubSeq(s, 5 + n, Len(s)))
                  IN  IF d.ok /\ r.ok
                      THEN [ok |-> TRUE, matches |-> d.matches \o r.matches]
                      ELSE NoDecode

(***************************************************************************)
(* Properties of the streamed response and of the match cache.             *)
(***************************************************************************)
\* the body of p was read to its end
ReadToEnd(p) == pipe[p].reader = "eof"

\* the matches the engine sent for p, in the order of the channel
SentMatches(p) == [k \in 1..Len(sent[p]) |-> sent[p][k].match]

\* C4: a body read to its end is the frames of the N matches of the request
\* and nothing else, N = 0 included: read as 4-byte little-endian lengths
\* each followed by that many bytes of payload, it decodes to exactly the
\* matches that were written, in their order.
C4_StreamDecodesToMatches ==
    \A p \in Procs :
        ReadToEnd(p) =>
            LET d == DecodeStream(received[p])
            IN  /\ d.ok
                /\ d.matches = framed[p]
                /\ d.matches = SentMatches(p)

\* one body of two frames or more and one body of no frame, both read whole
C4_Witness ==
    \E p \in Procs, q \in Procs :
        /\ ReadToEnd(p) /\ Len(framed[p]) >= 2 /\ Len(received[p]) > 8
        /\ ReadToEnd(q) /\ sent[q] = <<>> /\ received[q] = <<>>

Count(seq, x) == Cardinality({k \in 1..Len(seq) : seq[k] = x})

\* the same files, in any order
SameFiles(a, b) ==
    /\ Len(a) = Len(b)
    /\ \A x \in Range(a) \cup Range(b) : Count(a, x) = Count(b, x)

\* p was answered with a stream, and a request with the same files had
\* streamed all its matches, and cached them, before p arrived
Repeat(p) ==
    /\ req[p].pc = "responded" /\ req[p].body = "stream"
    /\ \E q \in req[p].after : SameFiles(req[q].file_hashes, req[p].file_hashes)

\* C7: for a request that repeats the files of a request already streamed
\* the engine computes no match: the cached results serve it.
C7_RepeatNotRecomputed ==
    \A p \in Procs : Repeat(p) => sent[p] = <<>>

\* C8: every key of the match cache is the file hashes in ascending order.
C8_KeySorted ==
    \A key \in DOMAIN match_cache :
        \A i \in 1..Len(key), j \in 1..Len(key) : i < j => key[i] <= key[j]

CachedUnder(key) ==
    IF key \in DOMAIN match_cache
    THEN {match_cache[key][id] : id \in DOMAIN match_cache[key]}
    ELSE {}

CachedCount(key) ==
    IF key \in DOMAIN match_cache THEN Cardinality(DOMAIN match_cache[key]) ELSE 0

\* C9: when a stream has ended with no write failure, every framed match is
\* in the match cache under the request's key, and the key holds as many
\* matches as were framed.
C9_CachedEqualsFramed ==
    \A p \in Procs :
        CleanEnd(p) =>
            /\ \A k \in 1..Len(framed[p]) : framed[p][k] \in CachedUnder(cache_key(p))
            /\ CachedCount(cache_key(p)) = Len(framed[p])

\* the task of p is in its loop over rx.recv()
InRecvLoop(p) ==
    cons[p].pc \in {"recv", "cache_entry", "cache_insert", "write_len", "write_payload"}

\* C10: production and framing overlap: whenever the workers of a request
\* are running and a match waits in the channel, the request's task is in
\* its receive loop, draining the channel.
C10_DrainsWhileProducing ==
    \A p \in Procs :
        (cons[p].pc # "none" /\ eng[p].pc = "scope" /\ channel[p] # <<>>) => InRecvLoop(p)

\* what the code does instead: no byte is written before the engine has
\* returned, and at the first recv the channel holds every match
NothingWrittenBeforeReturn ==
    \A p \in Procs :
        cons[p].pc = "engine" =>
            /\ pipe[p].buf = <<>> /\ received[p] = <<>> /\ framed[p] = <<>>
            /\ (eng[p].pc = "returned" => Len(channel[p]) = Len(sent[p]))

(***************************************************************************)
(* Properties of a stream whose client goes away.                          *)
(***************************************************************************)
CacheSteps == {"cache_entry", "cache_insert"}

\* C11: from the first failed write on, the task of the request is over: it
\* writes nothing more to the pipe, takes nothing more from the channel,
\* inserts nothing more into the match cache, frames nothing more, and the
\* request's status stays as it was answered.
C11_StopsOnFailedWrite ==
    [][\A p \in Procs :
          cons[p].failed =>
              /\ cons[p].pc = "done"
              /\ cons'[p] = cons[p]
              /\ pipe'[p].buf = pipe[p].buf
              /\ channel'[p] = channel[p]
              /\ framed'[p] = framed[p]
              /\ req'[p] = req[p]
              /\ (\A q \in Procs \ {p} : cons[q].pc \notin CacheSteps)
                    => match_cache' = match_cache]_vars

\* a write failed after a first frame was written whole, with a match left
\* in the channel
C11_Witness ==
    \E p \in Procs :
        /\ cons[p].failed
        /\ framed[p] # <<>>
        /\ channel[p] # <<>>
        /\ req[p].status = 200

\* the matches the task of p has taken from the channel
Received(p) == SubSeq(SentMatches(p), 1, Len(sent[p]) - Len(channel[p]))

\* the task of p was ended by a failed write
Cancelled(p) == cons[p].pc = "done" /\ cons[p].failed

\* C12 as claimed: after a cancelled stream, every match the engine had sent
\* before the client went away is in the match cache under the request's key.
C12_ProducedAreCached ==
    \A p \in Procs :
        Cancelled(p) =>
            \A k \in 1..pipe[p].sent_at_drop :
                sent[p][k].match \in CachedUnder(cache_key(p))

\* the last of the matches of p's received ones that has the match_id of m
LastWithId(p, m) ==
    LET r == Received(p)
        ks == {k \in 1..Len(r) : match_id(r[k]) = match_id(m)}
    IN  r[CHOOSE k \in ks : \A j \in ks : j <= k]

\* C12: after a cancelled stream, every match the task had taken from the
\* channel, the one whose write failed included, has an entry under its
\* match_id in the match cache under the request's key: the match itself,
\* or the later received match of the same match_id that replaced it.
C12_ReceivedAreCached ==
    \A p \in Procs :
        Cancelled(p) =>
            \A k \in 1..Len(Received(p)) :
                LET m == Received(p)[k]
                IN  /\ cache_key(p) \in DOMAIN match_cache
                    /\ match_id(m) \in DOMAIN match_cache[cache_key(p)]
                    /\ match_cache[cache_key(p)][match_id(m)] = LastWithId(p, m)

\* a stream cancelled at its second match, with a third left in the channel
C12_Witness ==
    \E p \in Procs :
        /\ Cancelled(p)
        /\ Len(Received(p)) >= 2
        /\ channel[p] # <<>>
        /\ pipe[p].sent_at_drop = Len(sent[p])

(***************************************************************************)
(* Properties of a request that ends in an error.                          *)
(***************************************************************************)
\* no parse of the content succeeds
Unparsable(name) == \A o \in ParseOutcomes(Content(name)) : ~o.ok

\* one of the files of p (of two or three, read whole) is no UTF-8 text or
\* does not parse
BadUpload(p) ==
    /\ ~req[p].broken
    /\ Len(req[p].files) \in 2..3
    /\ \E k \in 1..Len(req[p].files) :
          ~IsUtf8(req[p].files[k]) \/ Unparsable(req[p].files[k])

\* nothing of the streaming part of p exists
NeverStreamed(p) ==
    /\ eng[p] = IdleEng /\ sent[p] = <<>> /\ channel[p] = <<>>
    /\ cons[p] = IdleCons
    /\ pipe[p] = NoPipe
    /\ received[p] = <<>> /\ framed[p] = <<>>

\* C13: a request with a file that is no UTF-8 text or does not parse, and a
\* request whose parse or index task failed, never has the engine started,
\* never has a pipe and never emits a byte; once rejected it has an error
\* status and no body.
C13_ErrorsBeforeStreaming ==
    \A p \in Procs :
        /\ BadUpload(p) => NeverStreamed(p) /\ req[p].status \in {0, 400, 500}
        /\ req[p].pc = "rejected" =>
              /\ NeverStreamed(p)
              /\ req[p].status \in {400, 500}
              /\ req[p].body = "none"

\* a request rejected at its second file, the first one parsed and cached,
\* and a request whose index task failed after both files were parsed
C13_Witness ==
    \E p \in Procs, q \in Procs :
        /\ req[p].pc = "rejected" /\ req[p].status = 400
        /\ Len(req[p].file_hashes) = 2 /\ Len(req[p].file_records) = 1
        /\ req[q].pc = "rejected" /\ req[q].status = 500
        /\ Len(req[q].file_records) >= 2

\* C14: at the step that rejects a request for a file that is no UTF-8 text,
\* the four maps of the cache are what they were when the request arrived.
C14_NoPartialWork ==
    [][\A p \in Procs :
          (/\ req[p].pc = "file_loop"
           /\ ~IsUtf8(req[p].files[req[p].k])
           /\ req'[p].pc = "rejected")
          => [parsed_files |-> parsed_files', chromosome_lengths |-> chromosome_lengths',
              indices |-> indices', match_cache |-> match_cache'] = req[p].before]_vars

(***************************************************************************)
(* Properties of parse_xmap_file.                                          *)
(***************************************************************************)
\* the parsed fields of a line of 12 fields or more that are no number of
\* their type
FailingFields(line) ==
    {f \in {"XmapEntryID", "QryContigID", "RefContigID", "QryStartPos", "QryEndPos",
            "RefStartPos", "RefEndPos", "Confidence", "RefLen"} :
        \/ f = "XmapEntryID" /\ ~ParseU32(line[1]).ok
        \/ f = "QryContigID" /\ ~ParseU32(line[2]).ok
        \/ f = "RefContigID" /\ ~ParseU8(line[3]).ok
        \/ f = "QryStartPos" /\ ~ParseF64(line[4]).ok
        \/ f = "QryEndPos" /\ ~ParseF64(line[5]).ok
        \/ f = "RefStartPos" /\ ~ParseF64(line[6]).ok
        \/ f = "RefEndPos" /\ ~ParseF64(line[7]).ok
        \/ f = "Confidence" /\ ~ParseF64(line[9]).ok
        \/ f = "RefLen" /\ ~ParseF64(line[12]).ok}

\* a line that is neither a comment nor blank
IsDataLine(line) == ~StartsWithHash(line) /\ ~IsBlankLine(line)

\* positions of the data lines of the content under test, of its short
\* lines, of its full lines, of its full lines with a failing field
DataAt == {i \in 1..Len(ut.content) : IsDataLine(ut.content[i])}
ShortAt == {i \in DataAt : Len(ut.content[i]) < MinFields}
FullAt == DataAt \ ShortAt
FailingAt == {i \in FullAt : FailingFields(ut.content[i]) # {}}

Parsed == ut.pc \in {"parsed", "parsed_twice", "indexed"}
ParsedTwice == ut.pc \in {"parsed_twice", "indexed"}

\* the outcome is an error that names a failing field, and holds nothing
IsAbort(o) ==
    /\ ~o.ok
    /\ o.records = <<>> /\ o.lengths = {}
    /\ o.error \in UNION {FailingFields(ut.content[i]) : i \in FailingAt}

\* C15: when a data line of 12 fields or more has a parsed field that is no
\* number, the parse returns an error naming a failing field and no records,
\* whatever the other lines are and in whatever order the lines are taken.
C15_NumericFailureAborts ==
    /\ (Parsed /\ FailingAt # {}) => IsAbort(ut.first)
    /\ (ParsedTwice /\ FailingAt # {}) => IsAbort(ut.second)

\* one failing line among two valid ones, parsed in two orders
C15_Witness ==
    /\ ParsedTwice
    /\ Cardinality(FailingAt) = 1
    /\ Cardinality(FullAt) = 3
    /\ ut.perm # <<1, 2, 3>>
    /\ ~ut.first.ok /\ ~ut.second.ok

\* the entry ids of the full lines
EntryIds == {ParseU32(ut.content[i][1]).v : i \in FullAt}

\* C16 as claimed: when every numeric field parses, the parse returns as
\* many records as there are data lines less the short ones.
C16_CountIsDataLessShort ==
    (Parsed /\ FailingAt = {}) =>
        /\ ut.first.ok
        /\ Len(ut.first.records) = Cardinality(DataAt) - Cardinality(ShortAt)

\* C16: when every numeric field parses, the parse succeeds, short lines
\* leave no trace, and the records returned are one per distinct entry id of
\* the data lines of 12 fields or more: as many as the data lines less the
\* short ones when no two of those lines share an entry id.
C16_CountIsDistinctIds ==
    (Parsed /\ FailingAt = {}) =>
        /\ ut.first.ok
        /\ Len(ut.first.records) = Cardinality(EntryIds)
        /\ {r.xmap_entry_id : r \in Range(ut.first.records)} = EntryIds
        /\ Cardinality(EntryIds) = Cardinality(FullAt)
              => Len(ut.first.records) = Cardinality(DataAt) - Cardinality(ShortAt)

\* a short line beside two valid lines of distinct ids
C16_Witness ==
    /\ Parsed
    /\ FailingAt = {}
    /\ Cardinality(ShortAt) = 1
    /\ Cardinality(FullAt) = 2
    /\ Len(ut.first.records) = 2

\* C17: two parses of the lines of a content, in any two orders, return the
\* same records (the same entry ids with the same field values) and the same
\* chromosome lengths.
C17_ParseDeterministic ==
    ParsedTwice =>
        /\ ut.first.ok = ut.second.ok
        /\ Range(ut.first.records) = Range(ut.second.records)
        /\ ut.first.lengths = ut.second.lengths

(***************************************************************************)
(* Properties of build_index.                                              *)
(***************************************************************************)
Indexed == ut.pc = "indexed"

\* the records of one bucket
Bucket(q) == {ut.index[q][id] : id \in DOMAIN ut.index[q]}

\* C18: the buckets of the index partition the records: every record is in
\* the bucket of its own query-contig id and in no other, the buckets
\* together hold the records and nothing else, and no bucket is empty.
C18_IndexIsPartition ==
    Indexed =>
        LET recs == Range(ut.first.records) IN
        /\ \A r \in recs :
              /\ r.qry_contig_id \in DOMAIN ut.index
              /\ \A q \in DOMAIN ut.index : r \in Bucket(q) <=> q = r.qry_contig_id
        /\ UNION {Bucket(q) : q \in DOMAIN ut.index} = recs
        /\ \A q \in DOMAIN ut.index :
              /\ Bucket(q) # {}
              /\ Cardinality(DOMAIN ut.index[q]) = Cardinality(Bucket(q))
              /\ \A id \in DOMAIN ut.index[q] : ut.index[q][id].xmap_entry_id = id

\* three records in two buckets
C18_Witness ==
    /\ Indexed
    /\ Len(ut.first.records) = 3
    /\ Cardinality(DOMAIN ut.index) = 2

(***************************************************************************)
(* Properties of the matches the engine emits.                             *)
(***************************************************************************)
\* positions in file i (from 0) of p's file set of the records of contig q
RecordsAt(p, i, q) ==
    {k \in 1..Len(fileset[p].files[i + 1]) :
        fileset[p].files[i + 1][k].qry_contig_id = q}

\* m is the record at position k of file i, tagged i
IsRecordOf(m, p, i, k) ==
    LET r == fileset[p].files[i + 1][k] IN
    /\ m.file_index = i
    /\ m.ref_contig_id = r.ref_contig_id
    /\ m.qry_start_pos = r.qry_start_pos
    /\ m.qry_end_pos = r.qry_end_pos
    /\ m.ref_start_pos = r.ref_start_pos
    /\ m.ref_end_pos = r.ref_end_pos
    /\ m.orientation = r.orientation
    /\ m.confidence = r.confidence
    /\ m.ref_len = r.ref_len

\* the entries first + 1 .. first + |at| of ms are, one for one, the records
\* of file i at the positions `at`
OnePerRecord(ms, first, p, i, at) ==
    \E f \in Perms(at) :
        \A n \in 1..Cardinality(at) : IsRecordOf(ms[first + n], p, i, f[n])

\* C19: every match sent for a pair (i, j) and a query contig q holds one
\* MatchedRecord for each record of q in file i, tagged i and with that
\* record's field values, followed by one for each record of q in file j,
\* tagged j.
C19_MatchListsEveryRecord ==
    \A p \in Procs : \A n \in 1..Len(sent[p]) :
        LET e == sent[p][n]
            q == e.match.qry_contig_id
            at_i == RecordsAt(p, e.file_i, q)
            at_j == RecordsAt(p, e.file_j, q)
        IN  /\ at_i # {} /\ at_j # {}
            /\ Len(e.match.records) = Cardinality(at_i) + Cardinality(at_j)
            /\ OnePerRecord(e.match.records, 0, p, e.file_i, at_i)
            /\ OnePerRecord(e.match.records, Cardinality(at_i), p, e.file_j, at_j)

\* a match of two records of file 0 and one of file 1
C19_Witness ==
    \E p \in Procs : \E n \in 1..Len(sent[p]) :
        /\ Cardinality(RecordsAt(p, sent[p][n].file_i, sent[p][n].match.qry_contig_id)) = 2
        /\ Len(sent[p][n].match.records) = 3
        /\ EngineReturned(p)

\* C20: the file_indices of every match sent are the two file indices of
\* the pair that produced it.
C20_TwoFileIndices ==
    \A p \in Procs : \A n \in 1..Len(sent[p]) :
        /\ Len(sent[p][n].match.file_indices) = 2
        /\ sent[p][n].match.file_indices = <<sent[p][n].file_i, sent[p][n].file_j>>

(***************************************************************************)
(* Properties of the engine's channel.                                     *)
(***************************************************************************)
\* the call of p was made with no file or with one
FewFiles(p) == eng[p].pc # "idle" /\ Len(fileset[p].files) < 2

\* C21: a call with no file or with one file never enters the loop over the
\* pairs, spawns no worker and sends no match; once it has returned, the
\* channel is empty with every Sender dropped, so the first recv of a
\* receive loop fails and the loop ends having received nothing.
C21_FewFilesEmptyClosed ==
    \A p \in Procs :
        FewFiles(p) =>
            /\ eng[p].pc \in {"call", "returned", "test_done"}
            /\ wk[p] = IdleWorkers
            /\ sent[p] = <<>> /\ channel[p] = <<>> /\ got[p] = <<>>
            /\ EngineReturned(p) => senders[p] = 0

\* a call with one file has returned and the receive loop over it has ended
C21_Witness ==
    \E p \in Procs :
        /\ Len(fileset[p].files) = 1
        /\ eng[p].pc = "test_done"
        /\ got[p] = <<>>

\* the query-contig ids of the matches sent for p, and of those received
SentIds(p) == {sent[p][k].match.qry_contig_id : k \in 1..Len(sent[p])}
GotIds(p) == {got[p][k].qry_contig_id : k \in 1..Len(got[p])}

\* q was called with the two files of p in the other order
Swapped(p, q) ==
    /\ Len(fileset[p].files) = 2
    /\ fileset[q].files = Reverse(fileset[p].files)

\* C22: when the engine has returned for the file set [A, B] and for the
\* file set [B, A], the query-contig ids of the matches sent are the same
\* set in both; and so are those received once both receive loops are over.
C22_SymmetricIds ==
    \A p \in Procs, q \in Procs :
        Swapped(p, q) =>
            /\ (EngineReturned(p) /\ EngineReturned(q)) => SentIds(p) = SentIds(q)
            /\ (eng[p].pc = "test_done" /\ eng[q].pc = "test_done")
                  => GotIds(p) = GotIds(q) /\ GotIds(p) = SentIds(p)

\* two files that differ, each with a contig the other lacks, matched in
\* both orders with a match found
C22_Witness ==
    \E p \in Procs, q \in Procs :
        /\ p # q /\ Swapped(p, q)
        /\ eng[p].pc = "test_done" /\ eng[q].pc = "test_done"
        /\ QryIds(fileset[p].files[1]) \ QryIds(fileset[p].files[2]) # {}
        /\ QryIds(fileset[p].files[2]) \ QryIds(fileset[p].files[1]) # {}
        /\ GotIds(p) # {}

(***************************************************************************)
(* Properties of the duplex pipe under a slow reader.                      *)
(***************************************************************************)
\* the task of p is inside a write_all
Writing(p) == cons[p].pc \in {"write_len", "write_payload"}

PipeFull(p) == Len(pipe[p].buf) = DuplexCapacity

\* C23: the pipe never holds more than DuplexCapacity unread bytes; a task
\* inside a write cannot go on while the pipe is full and its reader is
\* there, and the reader can then drain it; the task can go on whenever the
\* pipe has room; and a worker inside the scope can always take its next
\* step, a send included, whatever the pipe and the channel hold.
C23_BackpressureAtPipe ==
    \A p \in Procs :
        /\ Len(pipe[p].buf) <= DuplexCapacity
        /\ (Writing(p) /\ PipeFull(p) /\ pipe[p].reader = "open")
              => ~ENABLED ConsWrite(p) /\ ENABLED ClientRead(p)
        /\ (Writing(p) /\ ~PipeFull(p)) => ENABLED ConsWrite(p)
        /\ \A w \in Workers :
              /\ (eng[p].pc = "scope" /\ wk[p][w].pc = "item") => ENABLED WorkerItem(p, w)
              /\ (eng[p].pc = "scope" /\ wk[p][w].pc = "pop") => ENABLED WorkerPop(p, w)

\* the pipe is full in the middle of a frame, the task waits with the rest
\* of the frame, and a match is still in the channel, its workers long done
C23_Witness ==
    \E p \in Procs :
        /\ Writing(p) /\ PipeFull(p) /\ pipe[p].reader = "open"
        /\ cons[p].buf # <<>>
        /\ channel[p] # <<>> /\ senders[p] = 0
        /\ Len(sent[p]) = 2

(***************************************************************************)
(* Where the CPU-bound work of a request runs: on a thread of the blocking *)
(* pool (inside a spawn_blocking closure that the handler awaits), or on a *)
(* thread of the async scheduler (inside the handler or the spawned task). *)
(***************************************************************************)
ParseSteps == {"get_records", "get_lengths", "parse", "insert_records", "insert_lengths"}

\* the CPU-bound work of p that is under way, with the domain it runs in
CpuWork(p) ==
    \* api.rs lines 63-69: get_or_parse in the closure of spawn_blocking
    (IF req[p].pc = "await_parse" /\ gp[p].pc \in ParseSteps
     THEN {[work |-> "parse", domain |-> "blocking"]} ELSE {})
    \* api.rs lines 85-89: get_or_build_index in the closure of spawn_blocking
    \cup (IF req[p].pc \in {"index_get", "index_insert"}
          THEN {[work |-> "index", domain |-> "blocking"]} ELSE {})
    \* api.rs line 97: XmapFileSet::new, build_index of every file, called in
    \* the handler itself
    \cup (IF req[p].pc = "spawn"
          THEN {[work |-> "index", domain |-> "async"]} ELSE {})
    \* api.rs lines 104-105: stream_matches_multi called in the async block
    \* given to tokio::spawn; the call groups the records and stays inside
    \* rayon::scope until the workers of every pair have ended
    \cup (IF cons[p].pc = "engine" /\ eng[p].pc \in {"call", "pair", "scope"}
          THEN {[work |-> "join", domain |-> "async"]} ELSE {})

\* C24: every piece of CPU-bound work of a request that is under way, its
\* parsing, its index building and its pairwise join, runs on the blocking
\* pool; none runs on a thread of the async scheduler.
C24_CpuOffScheduler ==
    \A p \in Procs : \A w \in CpuWork(p) : w.domain = "blocking"

(***************************************************************************)
(* Termination of a stream.                                                *)
(***************************************************************************)
\* the stream of p has ended as it should: no worker is left, every Sender
\* is dropped, the channel is drained, every match sent was framed whole, in
\* the order of the channel, the task is over and the writer dropped, and
\* the reader has seen the end of the stream after the last frame
StreamEnded(p) ==
    /\ eng[p].pc = "returned" /\ wk[p] = IdleWorkers
    /\ senders[p] = 0 /\ channel[p] = <<>>
    /\ framed[p] = SentMatches(p)
    /\ cons[p].pc = "done" /\ ~cons[p].failed
    /\ pipe[p].writer = "dropped" /\ pipe[p].buf = <<>>
    /\ ReadToEnd(p)
    /\ DecodeStream(received[p]).matches = framed[p]

\* C25: once the task of a request is spawned, the stream ends, unless the
\* client goes away: the workers of every pair end, the Senders are dropped,
\* every match sent is written as a whole frame, the task ends and drops the
\* writer, and the reader reaches the end of the stream.
C25_StreamEnds ==
    \A p \in Procs :
        (cons[p].pc = "engine") ~> (StreamEnded(p) \/ pipe[p].reader = "dropped")

\* a request of three files whose stream of three frames has ended
C25_Witness ==
    \E p \in Procs :
        /\ Len(req[p].files) = 3
        /\ StreamEnded(p)
        /\ Len(framed[p]) = 3

(***************************************************************************)
(* Properties of the queue of batches.                                     *)
(***************************************************************************)
\* the queue q holds the groups of file i (from 0) of p's file set in
\* batches of chunk_size
IsBatching(q, p, i) ==
    LET records_i == fileset[p].files[i + 1]
        entries == Flatten(q)
    IN  /\ \A k \in 1..Len(q) : Len(q[k]) >= 1 /\ Len(q[k]) <= chunk_size
        /\ \A k \in 1..(Len(q) - 1) : Len(q[k]) = chunk_size
        /\ Len(entries) = Cardinality(QryIds(records_i))
        /\ {entries[k][1] : k \in 1..Len(entries)} = QryIds(records_i)
        /\ \A k \in 1..Len(entries) :
              Range(entries[k][2]) = Range(GroupOf(records_i, entries[k][1]))

\* C26: the step that spawns the workers of a pair (i, j) leaves a queue in
\* which every group of file i is in exactly one batch, every batch holds
\* between 1 and chunk_size groups and every batch but the last chunk_size,
\* with no worker started; from then to the end of the pair a step leaves
\* the queue as it is or pops its head: no batch is added.
C26_BatchesBeforeWorkers ==
    [][\A p \in Procs :
          /\ (eng[p].pc = "pair" /\ eng'[p].pc = "scope") =>
                /\ IsBatching(eng'[p].queue, p, eng[p].file_pairs[eng[p].pair][1])
                /\ \A w \in Workers : wk'[p][w].pc = "pop" /\ wk'[p][w].chunk = NoChunk
          /\ eng[p].pc = "scope" =>
                \/ eng'[p].queue = eng[p].queue
                \/ eng[p].queue # <<>> /\ eng'[p].queue = Tail(eng[p].queue)]_vars

\* a pair whose first file has one group more than a full batch: a worker
\* holds the full batch and the batch of one group is still queued
C26_Witness ==
    \E p \in Procs : \E w \in Workers :
        /\ eng[p].pc = "scope"
        /\ Len(wk[p][w].chunk) = chunk_size
        /\ Len(eng[p].queue) = 1 /\ Len(eng[p].queue[1]) = 1

(***************************************************************************)
(* Properties of the match id.                                             *)
(***************************************************************************)
IdsComputed == ut.pc = "id_both"

\* the start position as u64 is below 2^32
Below32(x) == LET u == WideF64AsU64(x) IN u[1] = 0 /\ u[2] = 0

\* C27: the id holds the query-contig id in its upper 32 bits and the low 32
\* bits of the start position in its lower 32 bits, and two matches of
\* different query-contig ids get different ids, whatever the positions.
C27_IdPacksContig ==
    IdsComputed =>
        /\ <<ut.first[1], ut.first[2]>>
              = <<U32AsU64(ut.content[1].qry_contig_id)[3],
                  U32AsU64(ut.content[1].qry_contig_id)[4]>>
        /\ <<ut.first[3], ut.first[4]>>
              = <<WideF64AsU64(ut.content[1].qry_start_pos)[3],
                  WideF64AsU64(ut.content[1].qry_start_pos)[4]>>
        /\ ut.content[1].qry_contig_id # ut.content[2].qry_contig_id
              => ut.first # ut.second

\* what holds: the claim for start positions below 2^32
C27_PacksBelow32 ==
    (IdsComputed /\ Below32(ut.content[1].qry_start_pos)
                 /\ Below32(ut.content[2].qry_start_pos)) =>
        /\ <<ut.first[1], ut.first[2]>>
              = <<U32AsU64(ut.content[1].qry_contig_id)[3],
                  U32AsU64(ut.content[1].qry_contig_id)[4]>>
        /\ ut.content[1].qry_contig_id # ut.content[2].qry_contig_id
              => ut.first # ut.second

(***************************************************************************)
(* Properties of cache_match under overlapping streams.                    *)
(***************************************************************************)
\* the matches for which the task of p has returned from cache_match
Inserted(p) ==
    Range(framed[p]) \cup
    (IF cons[p].pc \in {"write_len", "write_payload"} THEN {cons[p].match_data} ELSE {})

\* the task of p is at matches.insert with a match of this key and id
InsertsAt(p, key, id) ==
    /\ cons[p].pc = "cache_insert"
    /\ cons'[p].pc = "write_len"
    /\ cache_key(p) = key
    /\ match_id(cons[p].match_data) = id

\* every insert made so far has its entry under the key of its request
InsertsKept ==
    \A p \in Procs : \A m \in Inserted(p) :
        /\ cache_key(p) \in DOMAIN match_cache
        /\ match_id(m) \in DOMAIN match_cache[cache_key(p)]

\* a step keeps every key and every id, and changes the entry of an id only
\* by an insert under that key and id
OnlyOwnEntry ==
    \A key \in DOMAIN match_cache :
        /\ key \in DOMAIN match_cache'
        /\ \A id \in DOMAIN match_cache[key] :
              /\ id \in DOMAIN match_cache'[key]
              /\ \/ match_cache'[key][id] = match_cache[key][id]
                 \/ \E p \in Procs : InsertsAt(p, key, id)

\* C28: when the tasks of overlapping requests call cache_match, under one
\* key or under several, no insert is lost to the creation of the inner
\* map: every match id inserted so far has its entry under its key, and an
\* insert under one id leaves the other ids and the other keys as they
\* were, whatever the interleaving of the calls.
C28_NoLostInsert == []InsertsKept /\ [][OnlyOwnEntry]_vars

C28_Witness ==
    \E p \in Procs : \E q \in Procs \ {p} :
        /\ cache_key(p) = cache_key(q)
        /\ cons[p].pc = "write_len"
        /\ cons[q].pc = "cache_insert"
        /\ match_id(cons[p].match_data) # match_id(cons[q].match_data)
        /\ match_id(cons[p].match_data) \in DOMAIN match_cache[cache_key(p)]
        /\ match_id(cons[q].match_data) \notin DOMAIN match_cache[cache_key(p)]

(***************************************************************************)
(* Properties of a failed get_or_parse.                                    *)
(***************************************************************************)
\* the calls that have returned an error
FailedCalls == {e \in gp_log : ~e.ok}

\* the Arcs the two maps hold
StoredArcs ==
    {parsed_files[h].arc : h \in DOMAIN parsed_files} \cup
    {chromosome_lengths[h].arc : h \in DOMAIN chromosome_lengths}

\* p returns an error in this step
Fails(p) == gp[p].pc # "failed" /\ gp'[p].pc = "failed"

\* C29: a get_or_parse whose parse fails returns the error and leaves the
\* cache as it was: neither map gets an entry from the call or for its hash,
\* and every call that returned an error ran the parse itself, the later
\* calls with the same hash included (the error is not cached).
C29_FailureNotCached ==
    /\ [](\A e \in FailedCalls :
            /\ e.parsed
            /\ e.id \notin StoredArcs
            /\ e.hash \notin DOMAIN parsed_files
            /\ e.hash \notin DOMAIN chromosome_lengths)
    /\ [][\A p \in Procs : Fails(p) =>
            /\ gp[p].pc = "parse"
            /\ UNCHANGED cacheVars
            /\ \E e \in FailedCalls' \ FailedCalls : e.id = <<p, gp[p].call>>]_vars

\* a caller has failed twice on one hash, and another has failed on it too
C29_Witness ==
    \E e1 \in FailedCalls, e2 \in FailedCalls, e3 \in FailedCalls :
        /\ e1.hash = e2.hash /\ e3.hash = e1.hash
        /\ e1.id[1] = e2.id[1] /\ e1.id[2] = 1 /\ e2.id[2] = 2
        /\ e3.id[1] # e1.id[1]
        /\ e2.parsed
        /\ parsed_files # EmptyMap

(***************************************************************************)
(* Properties of the cached pair.                                          *)
(***************************************************************************)
\* both maps hold an entry for the hash
BothStored == DOMAIN parsed_files \cap DOMAIN chromosome_lengths

\* C30: whenever both parsed_files and chromosome_lengths hold an entry for
\* a hash, the two entries are the maps one parse_xmap_file call returned,
\* whatever the interleaving of the get_or_parse calls for the hash.
C30_PairFromOneParse ==
    \A h \in BothStored : parsed_files[h].arc = chromosome_lengths[h].arc

\* the Arc is a map returned by a parse that a get_or_parse call for the
\* hash ran
ParsedFor(arc, h) ==
    \/ \E e \in gp_log : e.id = arc /\ e.hash = h /\ e.ok /\ e.parsed
    \/ \E p \in Procs : arc = <<p, gp[p].call>> /\ gp[p].hash = h /\ gp[p].parsed

\* what holds: each of the two entries is the output of a parse of a call
\* for the hash, and the stored pair is content-equal to a pair that one
\* parse of a content of this hash can return
C30_PairOfSomeParse ==
    \A h \in BothStored :
        /\ ParsedFor(parsed_files[h].arc, h)
        /\ ParsedFor(chromosome_lengths[h].arc, h)
        /\ \E name \in CacheInputs :
              /\ hash_content(Content(name)) = h
              /\ \E o \in ParseOutcomes(Content(name)) :
                    /\ o.ok
                    /\ o.records = parsed_files[h].entries
                    /\ o.lengths = chromosome_lengths[h].entries

\* the two entries of a hash come from the parses of two calls, and every
\* call has returned
C30_Witness ==
    \E h \in BothStored :
        /\ parsed_files[h].arc # chromosome_lengths[h].arc
        /\ h = hash_content(Content("Dup"))
        /\ \A p \in Procs : gp[p].pc = "returned"

(***************************************************************************)
(* Properties of the bytes on the pipe.                                    *)
(***************************************************************************)
IsPrefix(a, b) == Len(a) <= Len(b) /\ SubSeq(b, 1, Len(a)) = a

\* the frame of a match: its length prefix, then its payload
Frame(m) == LengthPrefix(SerializeMatch(m)) \o SerializeMatch(m)

Frames(ms) == Flatten([k \in 1..Len(ms) |-> Frame(ms[k])])

\* the bytes the task has written to the pipe so far
Written(p) == received[p] \o pipe[p].buf

\* the matches the task has taken from the channel, in receive order
Taken(p) == [k \in 1..(Len(sent[p]) - Len(channel[p])) |-> sent[p][k].match]

\* C31: the bytes written to the pipe of a request are at every moment a
\* prefix of the frames (length prefix, then payload) of the matches its
\* task has received, in receive order, and hold the frame of every match
\* written whole; a step only appends to them, also when a write fails.
C31_WrittenIsFramePrefix ==
    /\ [](\A p \in Procs :
            /\ IsPrefix(Written(p), Frames(Taken(p)))
            /\ IsPrefix(Frames(framed[p]), Written(p)))
    /\ [][\A p \in Procs : IsPrefix(Written(p), Written(p)')]_vars

\* the task of p is inside its second frame: the length prefix is written,
\* the payload is not
C31_Witness ==
    \E p \in Procs :
        /\ Len(framed[p]) = 1
        /\ cons[p].pc = "write_payload"
        /\ Written(p) = Frame(framed[p][1]) \o LengthPrefix(cons[p].bytes)
        /\ received[p] # <<>>

(***************************************************************************)
(* Properties of extract_sequence_2bit_in_chunks.                          *)
(***************************************************************************)
ULe(a, b) == ~ULt(b, a)

\* the call holds the lock and start <= end
Extracting == ut.pc # "call" /\ ~ut.poisoned /\ ULe(ut.start, ut.end)

ChunkLo(k) == ut.reads[k].range[1]
ChunkHi(k) == ut.reads[k].range[2]
ChunkLen(k) == USub(ChunkHi(k), ChunkLo(k)).val

\* end - start as an integer, when it is below 2^20
SmallLength ==
    LET n == USub(ut.end, ut.start).val
    IN  IF n[1] = 0 /\ n[2] = 0 /\ n[3] < 16 THEN n[3] * Limb + n[4] ELSE -1

\* the reads made so far are [chunk_start, min(chunk_start + CHUNK_SIZE, end))
\* one after another from start, and sequence is their concatenation
ChunksInOrder ==
    /\ \A k \in 1..Len(ut.reads) :
          /\ ChunkLo(k) = IF k = 1 THEN ut.start ELSE ChunkHi(k - 1)
          /\ ULt(ChunkLo(k), ChunkHi(k))
          /\ ULe(ChunkHi(k), ut.end)
          /\ ULe(ChunkLen(k), U32AsU64(CHUNK_SIZE))
          /\ ChunkLen(k) = U32AsU64(CHUNK_SIZE) \/ ChunkHi(k) = ut.end
          /\ k < Len(ut.reads) => ut.reads[k].ok
    /\ ut.sequence = [k \in 1..Len(ut.sequence) |-> ut.reads[k].range]
    /\ Len(ut.sequence) = Cardinality({k \in 1..Len(ut.reads) : ut.reads[k].ok})

\* the call's end: Ok after the read that reaches end, in
\* ceil((end - start) / CHUNK_SIZE) reads, or the error of the last read
ChunksEnd ==
    /\ ut.pc # "panicked"
    /\ ut.pc = "loop" => Len(ut.reads) < MaxReads
    /\ ut.pc = "ok" =>
          /\ \A k \in 1..Len(ut.reads) : ut.reads[k].ok
          /\ IF ut.reads = <<>> THEN ut.start = ut.end
             ELSE ChunkHi(Len(ut.reads)) = ut.end
          /\ SmallLength >= 0
          /\ Len(ut.reads) = (SmallLength + CHUNK_SIZE - 1) \div CHUNK_SIZE
    /\ ut.pc = "err" => ut.reads # <<>> /\ ~ut.reads[Len(ut.reads)].ok

\* C32: for start <= end the reads are the ranges
\* [chunk_start, min(chunk_start + CHUNK_SIZE, end)) one after another,
\* contiguous, non-empty, at most CHUNK_SIZE long, covering [start, end);
\* the call returns after ceil((end - start) / CHUNK_SIZE) reads with the
\* chunks in order, or with the error of the first read that fails.
C32_ChunksCoverRange == Extracting => (ChunksInOrder /\ ChunksEnd)

\* neither end - start nor a chunk_start + CHUNK_SIZE leaves the usize range
\* String::with_capacity and the addition accept
InRange ==
    /\ ~UAdd(ut.end, U32AsU64(CHUNK_SIZE)).overflow
    /\ ~CapacityOverflow(USub(ut.end, ut.start).val)

\* what holds: the claim for calls whose end is at most usize::MAX less
\* CHUNK_SIZE
C32_ChunksCoverInRange == (Extracting /\ InRange) => (ChunksInOrder /\ ChunksEnd)

\* a call of three chunks has returned Ok
C32_ThreeChunks ==
    /\ Extracting /\ InRange
    /\ ut.pc = "ok"
    /\ Len(ut.reads) = 3
    /\ ChunkLen(3) # U32AsU64(CHUNK_SIZE)

=============================================================================
